---------------------------- MODULE Spec2Model ----------------------------
(* A model of the object-storage gateway (metorial/object-storage):         *)
(*   - the Local backend (object-store-backends/src/local.rs), as a file    *)
(*     system of payload files, sibling metadata files and directories;     *)
(*   - the MetadataStore (object-store/src/metadata.rs): bucket catalog,    *)
(*     bucket cache and advisory locks, all persisted through the backend;  *)
(*   - the Service (object-store/src/service.rs): logical buckets mapped    *)
(*     onto key prefixes.                                                   *)
(* Strings are sequences of one-character strings, so that starts_with,     *)
(* contains, ends_with, strip_prefix and Path::with_extension are computed  *)
(* character by character as the code computes them.                       *)
EXTENDS Integers, Sequences, FiniteSets, TLC

VARIABLES
    files,      \* the Local backend's regular files: path -> content
    dirs,       \* the Local backend's directories (paths)
    cache,      \* BucketCache.buckets: name -> Bucket
    now,        \* Utc::now(), in seconds
    last,       \* the request that completed last, with its result and backend calls
    stored,     \* history: (bucket, key) -> what the last successful put_object stored
    created,    \* history: name -> the Bucket its successful create_bucket returned
    pc,         \* per task: the await point a concurrent request is suspended at
    loc         \* per task: the request's local variables

vars == <<files, dirs, cache, now, last, stored, created, pc, loc>>

-----------------------------------------------------------------------------
(* Strings *)

\* a value named once and used many times: Let(v, LAMBDA x : e) is e with the
\* value of v for x
Let(v, Body(_)) == CHOOSE r \in {Body(w) : w \in {v}} : TRUE

StartsWith(s, p) == Len(p) <= Len(s) /\ SubSeq(s, 1, Len(p)) = p

EndsWith(s, p) == Len(p) <= Len(s) /\ SubSeq(s, Len(s) - Len(p) + 1, Len(s)) = p

Contains(s, p) ==
    \E i \in 1..(Len(s) - Len(p) + 1) : SubSeq(s, i, i + Len(p) - 1) = p

\* str::strip_prefix: the rest of s after p, when s starts with p
StripPrefix(s, p) == SubSeq(s, Len(p) + 1, Len(s))

\* the last index of character c in s, 0 when there is none
LastIndexOf(s, c) ==
    Let({i \in 1..Len(s) : s[i] = c}, LAMBDA hits :
        IF hits = {} THEN 0 ELSE CHOOSE i \in hits : \A j \in hits : j <= i)

\* the first index of character c in s, 0 when there is none
FirstIndexOf(s, c) ==
    Let({i \in 1..Len(s) : s[i] = c}, LAMBDA hits :
        IF hits = {} THEN 0 ELSE CHOOSE i \in hits : \A j \in hits : i <= j)

DotDot == <<".", ".">>
Slash == <<"/">>
Dot == <<".">>
MetaJsonExt == <<"m", "e", "t", "a", ".", "j", "s", "o", "n">>
DotMetaJson == <<".", "m", "e", "t", "a", ".", "j", "s", "o", "n">>
JsonExt == <<"j", "s", "o", "n">>
DotJson == <<".", "j", "s", "o", "n">>
BucketMarkerName == <<".", "b", "u", "c", "k", "e", "t">>
SlashBucketMarker == <<"/", ".", "b", "u", "c", "k", "e", "t">>
BUCKETS_PREFIX == <<".", "m", "e", "t", "a", "d", "a", "t", "a", "/", "b", "u", "c", "k", "e", "t", "s">>
LOCKS_PREFIX == <<".", "m", "e", "t", "a", "d", "a", "t", "a", "/", "l", "o", "c", "k", "s">>

-----------------------------------------------------------------------------
(* Paths (std::path), relative to <root_path>/<physical bucket> *)

RECURSIVE Split(_)
\* the segments of s between its '/' characters
Split(s) ==
    Let(FirstIndexOf(s, "/"), LAMBDA i :
        IF i = 0 THEN <<s>>
        ELSE <<SubSeq(s, 1, i - 1)>> \o Split(SubSeq(s, i + 1, Len(s))))

\* Path::components: repeated and trailing separators and "." segments drop out
Components(s) == SelectSeq(Split(s), LAMBDA seg : seg # <<>> /\ seg # Dot)

RECURSIVE JoinPath(_)
JoinPath(segs) ==
    IF segs = <<>> THEN <<>>
    ELSE IF Len(segs) = 1 THEN segs[1]
    ELSE segs[1] \o Slash \o JoinPath(Tail(segs))

\* root_path.join(bucket_name).join(key), as the path below the bucket directory
PathJoin(key) == JoinPath(Components(key))

\* Path::parent: <<>> is the bucket directory itself
Parent(p) ==
    Let(LastIndexOf(p, "/"), LAMBDA i : IF i = 0 THEN <<>> ELSE SubSeq(p, 1, i - 1))

\* Path::file_name
FileName(p) == SubSeq(p, LastIndexOf(p, "/") + 1, Len(p))

\* Path::file_stem: the name up to its last '.', the whole name when it has no
\* '.' or only a leading one
FileStem(p) ==
    Let(FileName(p), LAMBDA name :
    Let(LastIndexOf(name, "."), LAMBDA i :
        IF i <= 1 THEN name ELSE SubSeq(name, 1, i - 1)))

\* Path::extension: the part after the last '.', <<"-">> standing for None
NoExtension == <<"-">>
Extension(p) ==
    Let(FileName(p), LAMBDA name :
    Let(LastIndexOf(name, "."), LAMBDA i :
        IF i <= 1 THEN NoExtension ELSE SubSeq(name, i + 1, Len(name))))

\* Path::with_extension: the extension is replaced, not appended
WithExtension(p, ext) ==
    Let(Parent(p), LAMBDA par :
        (IF par = <<>> THEN <<>> ELSE par \o Slash) \o FileStem(p) \o Dot \o ext)

\* every directory above p, the bucket directory <<>> included
Ancestors(p) ==
    {<<>>} \cup {SubSeq(p, 1, i - 1) : i \in {j \in 1..Len(p) : p[j] = "/"}}

-----------------------------------------------------------------------------
(* Values *)

Ok(v) == [ok |-> TRUE, val |-> v]
Err(e) == [ok |-> FALSE, err |-> e]
Unit == "()"

\* A stream's bytes. User payloads are raw bytes; serde_json::to_vec(x) of a
\* Bucket, a Lock or an ObjectMetadata is the document of that type holding x.
Raw(bytes) == [kind |-> "raw", data |-> bytes]
ToJson(type, x) == [kind |-> type, data |-> x]
\* serde_json::from_slice::<type>: fails on anything that is no document of the type
FromJson(type, body) ==
    IF body.kind = type THEN Ok(body.data) ELSE Err("Serialization")

\* the number of bytes of a body (the length of a JSON text is its field count here)
BodyLen(body) ==
    IF body.kind = "raw" THEN Len(body.data) ELSE Cardinality(DOMAIN body.data)

\* hex::encode(Sha256(body)): an injective tag of the body, never the empty string
compute_etag(body) == <<"sha256", body>>

\* what a stream yields when the opened path is a directory
StreamError == [kind |-> "error", data |-> <<>>]

-----------------------------------------------------------------------------
(* The Local backend. A request's state st = [files, dirs, cache, log, fault]  *)
(* is threaded through the calls it makes; every backend call appends itself   *)
(* to st.log, and so does every completion of MetadataStore::get_bucket (as    *)
(* "get_bucket.ok" or "get_bucket.err"). st.fault = [at, kind] makes the at-th *)
(* backend call of the request fail: "early" before it changed anything, "mid" *)
(* after the payload file was created or removed, "late" after the payload was *)
(* written in full.                                                            *)

NoFault == [at |-> 0, kind |-> "none"]

Logged(st, op, key) == [st EXCEPT !.log = Append(@, [op |-> op, key |-> key])]

GetBucketMarks == {"get_bucket.ok", "get_bucket.err"}

\* the backend calls among the entries of a request's log
BackendCalls(log) == SelectSeq(log, LAMBDA e : e.op \notin GetBucketMarks)

\* which fault, if any, hits the backend call that Logged has just recorded
FaultOf(st) ==
    IF st.fault.at = Len(BackendCalls(st.log)) THEN st.fault.kind ELSE "none"

Exists(st, p) == p \in DOMAIN st.files \/ p \in st.dirs

WriteFile(st, p, content) ==
    [st EXCEPT !.files = [q \in DOMAIN st.files \cup {p} |->
                             IF q = p THEN content ELSE st.files[q]]]

RemoveFile(st, p) ==
    [st EXCEPT !.files = [q \in DOMAIN st.files \ {p} |-> st.files[q]]]

\* get_full_path without the check of the key
get_full_path_unchecked(key) == Ok(PathJoin(key))

get_full_path(key) ==
    IF Contains(key, DotDot) \/ StartsWith(key, Slash)
    THEN Err("InvalidPath")
    ELSE Ok(PathJoin(key))

get_metadata_path(key) ==
    Let(get_full_path(key), LAMBDA object_path :
        IF ~object_path.ok THEN object_path
        ELSE Ok(WithExtension(object_path.val, MetaJsonExt)))

read_metadata(st, key) ==
    Let(get_metadata_path(key), LAMBDA meta_path :
        IF ~meta_path.ok THEN meta_path
        ELSE IF ~Exists(st, meta_path.val) THEN Err("NotFound")
        ELSE IF meta_path.val \in st.dirs THEN Err("Io")
        ELSE FromJson("ObjectMetadata", st.files[meta_path.val]))

\* fs::create_dir_all: fails when a file stands where a directory is needed
CreateDirAll(st, dir) ==
    Let(Ancestors(dir) \cup {dir}, LAMBDA needed :
        IF \E d \in needed : d \in DOMAIN st.files
        THEN [st |-> st, res |-> Err("Io")]
        ELSE [st |-> [st EXCEPT !.dirs = @ \cup needed], res |-> Ok(Unit)])

write_metadata(st, metadata) ==
    Let(get_metadata_path(metadata.key), LAMBDA meta_path :
        IF ~meta_path.ok THEN [st |-> st, res |-> meta_path]
        ELSE Let(CreateDirAll(st, Parent(meta_path.val)), LAMBDA mk :
             IF ~mk.res.ok THEN mk
             ELSE IF meta_path.val \in mk.st.dirs
             THEN [st |-> mk.st, res |-> Err("Io")]
             ELSE [st |-> WriteFile(mk.st, meta_path.val,
                                    ToJson("ObjectMetadata", metadata)),
                   res |-> Ok(Unit)]))

local_put_object(st0, key, body, content_type, custom_metadata, t) ==
    Let(Logged(st0, "put_object", key), LAMBDA st :
    Let(get_full_path(key), LAMBDA object_path :
    Let([key |-> key, size |-> BodyLen(body), content_type |-> content_type,
         etag |-> compute_etag(body), last_modified |-> t,
         custom_metadata |-> custom_metadata], LAMBDA metadata :
        IF ~object_path.ok THEN [st |-> st, res |-> object_path]
        ELSE IF FaultOf(st) = "early" THEN [st |-> st, res |-> Err("Io")]
        ELSE Let(CreateDirAll(st, Parent(object_path.val)), LAMBDA mk :
             IF ~mk.res.ok THEN mk
             ELSE IF object_path.val \in mk.st.dirs
             THEN [st |-> mk.st, res |-> Err("Io")]
             ELSE IF FaultOf(st) = "mid"
             THEN [st |-> WriteFile(mk.st, object_path.val, Raw(<<>>)),
                   res |-> Err("Provider")]
             ELSE Let(WriteFile(mk.st, object_path.val, body), LAMBDA written :
                  IF FaultOf(st) = "late"
                  THEN [st |-> written, res |-> Err("Io")]
                  ELSE Let(write_metadata(written, metadata), LAMBDA wm :
                       IF ~wm.res.ok THEN wm
                       ELSE [st |-> wm.st, res |-> Ok(metadata)]))))))

local_get_object(st0, key) ==
    Let(Logged(st0, "get_object", key), LAMBDA st :
    Let(get_full_path(key), LAMBDA object_path :
        IF ~object_path.ok THEN [st |-> st, res |-> object_path]
        ELSE IF FaultOf(st) # "none" THEN [st |-> st, res |-> Err("Io")]
        ELSE IF ~Exists(st, object_path.val) THEN [st |-> st, res |-> Err("NotFound")]
        ELSE Let(read_metadata(st, key), LAMBDA metadata :
             IF ~metadata.ok THEN [st |-> st, res |-> metadata]
             ELSE [st |-> st,
                   res |-> Ok([metadata |-> metadata.val,
                               stream |-> IF object_path.val \in st.dirs
                                          THEN StreamError
                                          ELSE st.files[object_path.val]])])))

local_head_object(st0, key) ==
    Let(Logged(st0, "head_object", key), LAMBDA st :
    Let(get_metadata_path(key), LAMBDA meta_path :
        IF ~meta_path.ok THEN [st |-> st, res |-> meta_path]
        ELSE IF FaultOf(st) # "none" THEN [st |-> st, res |-> Err("Io")]
        ELSE [st |-> st, res |-> read_metadata(st, key)]))

local_delete_object(st0, key) ==
    Let(Logged(st0, "delete_object", key), LAMBDA st :
    Let(get_full_path(key), LAMBDA object_path :
    Let(get_metadata_path(key), LAMBDA meta_path :
        IF ~object_path.ok THEN [st |-> st, res |-> object_path]
        ELSE IF FaultOf(st) = "early" THEN [st |-> st, res |-> Err("Io")]
        ELSE IF ~Exists(st, object_path.val) THEN [st |-> st, res |-> Err("NotFound")]
        ELSE IF object_path.val \in st.dirs THEN [st |-> st, res |-> Err("Io")]
        ELSE Let(RemoveFile(st, object_path.val), LAMBDA removed :
             IF FaultOf(st) \in {"mid", "late"}
             THEN [st |-> removed, res |-> Err("Io")]
             ELSE IF ~Exists(removed, meta_path.val)
             THEN [st |-> removed, res |-> Ok(Unit)]
             ELSE IF meta_path.val \in removed.dirs
             THEN [st |-> removed, res |-> Err("Io")]
             ELSE [st |-> RemoveFile(removed, meta_path.val), res |-> Ok(Unit)]))))

\* Backend::object_exists, the trait's default: head, with NotFound read as false
local_object_exists(st0, key) ==
    Let(local_head_object(st0, key), LAMBDA h :
        IF h.res.ok THEN [st |-> h.st, res |-> Ok(TRUE)]
        ELSE IF h.res.err = "NotFound" THEN [st |-> h.st, res |-> Ok(FALSE)]
        ELSE h)

IsUnder(p, dir) == dir = <<>> \/ StartsWith(p, dir \o Slash)

\* list_recursive from search_path: the files the walk visits and does not skip
\* (a search path that is a file is skipped when its extension is "json"; below a
\* directory every entry whose name ends in ".meta.json" is skipped)
Walked(st, search_path) ==
    IF search_path \in DOMAIN st.files
    THEN IF Extension(search_path) = JsonExt THEN {} ELSE {search_path}
    ELSE IF search_path \in st.dirs
    THEN {p \in DOMAIN st.files : IsUnder(p, search_path) /\ ~EndsWith(p, DotMetaJson)}
    ELSE {}

\* Backend::list_objects with max_keys = None: per visited file whose relative key
\* starts with the prefix and whose metadata file reads, the metadata read
local_list_objects(st0, prefix_str) ==
    Let(Logged(st0, "list_objects", prefix_str), LAMBDA st :
        IF FaultOf(st) = "not_found" THEN [st |-> st, res |-> Err("NotFound")]
        ELSE IF FaultOf(st) # "none" THEN [st |-> st, res |-> Err("Io")]
        ELSE Let({p \in Walked(st, PathJoin(prefix_str)) :
                     StartsWith(p, prefix_str) /\ read_metadata(st, p).ok},
                 LAMBDA hits :
                 [st |-> st, res |-> Ok([p \in hits |-> read_metadata(st, p).val])]))

local_get_public_url(st0, key) ==
    [st |-> Logged(st0, "get_public_url", key), res |-> Err("Provider")]

-----------------------------------------------------------------------------
(* The MetadataStore: bucket catalog and cache *)

Lower == {"a", "b", "c", "d", "e", "f", "g", "h", "i", "j", "k", "l", "m",
          "n", "o", "p", "q", "r", "s", "t", "u", "v", "w", "x", "y", "z"}
Digit == {"0", "1", "2", "3", "4", "5", "6", "7", "8", "9"}

MinBucketNameLen == 3
MaxBucketNameLen == 63

\* the characters that take two bytes in UTF-8, among those the model uses
TwoByteChars == {"é"}

RECURSIVE Utf8Len(_)
\* str::len: the length in bytes
Utf8Len(s) ==
    IF s = <<>> THEN 0
    ELSE (IF Head(s) \in TwoByteChars THEN 2 ELSE 1) + Utf8Len(Tail(s))

\* a name accepted on the count of its characters alone
is_valid_bucket_name_by_length(name) ==
    Len(name) >= MinBucketNameLen /\ Len(name) <= MaxBucketNameLen

\* the length test is on bytes; the first and the last byte are an ASCII lowercase
\* letter or digit exactly when the first and the last character are
is_valid_bucket_name(name) ==
    IF Utf8Len(name) < MinBucketNameLen \/ Utf8Len(name) > MaxBucketNameLen THEN FALSE
    ELSE IF name[1] \notin Lower \cup Digit THEN FALSE
    ELSE IF name[Len(name)] \notin Lower \cup Digit THEN FALSE
    ELSE \A i \in 1..Len(name) : name[i] \in Lower \cup Digit \cup {"-"}

bucket_key(name) == BUCKETS_PREFIX \o Slash \o name \o DotJson

-----------------------------------------------------------------------------
(* The bucket id: DefaultHasher (SipHash-1-3 with a zero key) over the bytes  *)
(* of the name and 0xff, as 16 hex digits. A 64-bit word is four 16-bit limbs, *)
(* least significant first.                                                    *)

Limb == 65536

RECURSIVE Pow2(_)
Pow2(k) == IF k = 0 THEN 1 ELSE 2 * Pow2(k - 1)

\* bit k of a ^ b, in place
XorBit(a, b, k) == k * (((a \div k) + (b \div k)) % 2)

XorNibble(a, b, k) ==
    (XorBit(a, b, k) + XorBit(a, b, 2 * k)) + (XorBit(a, b, 4 * k) + XorBit(a, b, 8 * k))

XorInt(a, b) ==
    (XorNibble(a, b, 1) + XorNibble(a, b, 16))
    + (XorNibble(a, b, 256) + XorNibble(a, b, 4096))

Xor64(a, b) == <<XorInt(a[1], b[1]), XorInt(a[2], b[2]),
                 XorInt(a[3], b[3]), XorInt(a[4], b[4])>>

\* wrapping_add
Add64(a, b) ==
    <<(a[1] + b[1]) % Limb,
      (a[2] + b[2] + (a[1] + b[1]) \div Limb) % Limb,
      (a[3] + b[3] + (a[2] + b[2] + (a[1] + b[1]) \div Limb) \div Limb) % Limb,
      (a[4] + b[4] + (a[3] + b[3] + (a[2] + b[2] + (a[1] + b[1]) \div Limb)
                                        \div Limb) \div Limb) % Limb>>

\* rotate_left by 16 * q + k bits, k < 16
RotLimbs(a, q) == [i \in 1..4 |-> a[((i - 1 - q) % 4) + 1]]

RotBits(a, k) ==
    <<((a[1] * Pow2(k)) % Limb) + a[4] \div Pow2(16 - k),
      ((a[2] * Pow2(k)) % Limb) + a[1] \div Pow2(16 - k),
      ((a[3] * Pow2(k)) % Limb) + a[2] \div Pow2(16 - k),
      ((a[4] * Pow2(k)) % Limb) + a[3] \div Pow2(16 - k)>>

Rotl64(a, r) ==
    IF r % 16 = 0
    THEN <<RotLimbs(a, r \div 16)[1], RotLimbs(a, r \div 16)[2],
           RotLimbs(a, r \div 16)[3], RotLimbs(a, r \div 16)[4]>>
    ELSE RotBits(RotLimbs(a, r \div 16), r % 16)

\* one SipRound on the state <<v0, v1, v2, v3>>, in four stages
SipStage1(v) == <<Add64(v[1], v[2]), Rotl64(v[2], 13), Add64(v[3], v[4]), Rotl64(v[4], 16)>>
SipStage2(v) == <<Rotl64(v[1], 32), Xor64(v[2], v[1]), v[3], Xor64(v[4], v[3])>>
SipStage3(v) == <<Add64(v[1], v[4]), Rotl64(v[2], 17), Add64(v[3], v[2]), Rotl64(v[4], 21)>>
SipStage4(v) == <<v[1], Xor64(v[2], v[3]), Rotl64(v[3], 32), Xor64(v[4], v[1])>>
SipRound(v) ==
    Let(SipStage1(v), LAMBDA a :
    Let(SipStage2(a), LAMBDA b :
    Let(SipStage3(b), LAMBDA c : SipStage4(c))))

\* "somepseu", "dorandom", "lygenera", "tedbytes", xored with the zero key
SipInit == << <<25973, 28787, 28005, 29551>>, <<28525, 28260, 29281, 25711>>,
              <<29281, 28261, 26469, 27769>>, <<25971, 31092, 25698, 29797>> >>

\* eight bytes, little-endian
Word(b) == <<b[1] + 256 * b[2], b[3] + 256 * b[4], b[5] + 256 * b[6], b[7] + 256 * b[8]>>

Compress(v, m) ==
    Let(SipRound(<<v[1], v[2], v[3], Xor64(v[4], m)>>), LAMBDA w :
        <<Xor64(w[1], m), w[2], w[3], w[4]>>)

RECURSIVE Zeros(_)
Zeros(n) == IF n = 0 THEN <<>> ELSE <<0>> \o Zeros(n - 1)

\* write: whole words are compressed, the tail waits for finish
RECURSIVE SipWrite(_, _)
SipWrite(v, bytes) ==
    IF Len(bytes) < 8 THEN [v |-> v, tail |-> bytes]
    ELSE Let(Compress(v, Word(SubSeq(bytes, 1, 8))), LAMBDA w :
         Let(SubSeq(bytes, 9, Len(bytes)), LAMBDA rest : SipWrite(w, rest)))

\* finish: the tail with the length in the top byte, then 0xff into v2 and
\* three rounds
SipFinish(s, length) ==
    Let(Compress(s.v, Word(s.tail \o Zeros(7 - Len(s.tail)) \o <<length % 256>>)),
         LAMBDA v :
    Let(SipRound(<<v[1], v[2], Xor64(v[3], <<255, 0, 0, 0>>), v[4]>>), LAMBDA d1 :
    Let(SipRound(d1), LAMBDA d2 :
    Let(SipRound(d2), LAMBDA w : Xor64(Xor64(w[1], w[2]), Xor64(w[3], w[4]))))))

DefaultHasher(bytes) ==
    Let(SipWrite(SipInit, bytes), LAMBDA s : SipFinish(s, Len(bytes)))

AsciiFrom45 == <<"-", ".", "/", "0", "1", "2", "3", "4", "5", "6", "7", "8", "9">>
AsciiFrom97 == <<"a", "b", "c", "d", "e", "f", "g", "h", "i", "j", "k", "l", "m",
                 "n", "o", "p", "q", "r", "s", "t", "u", "v", "w", "x", "y", "z">>

\* the byte of an ASCII character
Byte(ch) ==
    IF \E i \in DOMAIN AsciiFrom97 : AsciiFrom97[i] = ch
    THEN 96 + CHOOSE i \in DOMAIN AsciiFrom97 : AsciiFrom97[i] = ch
    ELSE IF \E i \in DOMAIN AsciiFrom45 : AsciiFrom45[i] = ch
    THEN 44 + CHOOSE i \in DOMAIN AsciiFrom45 : AsciiFrom45[i] = ch
    ELSE IF ch = "A" THEN 65 ELSE 95    \* "_"

\* the UTF-8 encoding of a character
Utf8(ch) == IF ch \in TwoByteChars THEN <<195, 169>> ELSE <<Byte(ch)>>

RECURSIVE Utf8Of(_)
Utf8Of(s) == IF s = <<>> THEN <<>> ELSE Utf8(Head(s)) \o Utf8Of(Tail(s))

\* str::hash: the bytes of the string, then 0xff
StrBytes(s) == Utf8Of(s) \o <<255>>

HexDigits == <<"0", "1", "2", "3", "4", "5", "6", "7", "8", "9", "a", "b", "c", "d", "e", "f">>

\* {:04x} of one limb
Hex4(n) == <<HexDigits[(n \div 4096) + 1], HexDigits[((n \div 256) % 16) + 1],
             HexDigits[((n \div 16) % 16) + 1], HexDigits[(n % 16) + 1]>>

\* {:016x}
Hex16(h) == Hex4(h[4]) \o Hex4(h[3]) \o Hex4(h[2]) \o Hex4(h[1])

BucketIdPrefix == <<"b", "u", "c", "k", "e", "t", "-">>

\* the bucket names of the scenarios: two valid ones and one too short, every
\* short name over a small alphabet, and names at the upper length limit
ValidName == <<"a", "b", "c">>
SecondName == <<"x", "-", "9">>
ShortName == <<"a", "b">>

MaxNameLen == 3

NameChars == {"a", "9", "-", "A", "_", "é"}
ShortNames == UNION {[1..k -> NameChars] : k \in 0..MaxNameLen}
LongNames == {[i \in 1..k |-> "a"] : k \in {MaxBucketNameLen - 1, MaxBucketNameLen,
                                            MaxBucketNameLen + 1}}
AnyNames == ShortNames \cup LongNames

\* the ids of the valid names among them, computed once
BucketIdOf ==
    [name \in {n \in AnyNames \cup {ValidName, SecondName} : is_valid_bucket_name(n)}
        |-> BucketIdPrefix \o Hex16(DefaultHasher(StrBytes(name)))] @@ <<>>

generate_bucket_id_by_length(name) ==
    BucketIdPrefix \o Hex16(<<Len(name), 0, 0, 0>>)

generate_bucket_id(name) ==
    IF name \in DOMAIN BucketIdOf THEN BucketIdOf[name]
    ELSE BucketIdPrefix \o Hex16(DefaultHasher(StrBytes(name)))

-----------------------------------------------------------------------------

SvcErr(kind) == Err([kind |-> kind, inner |-> "-"])
\* ServiceError::Backend(e), by #[from]
BackendErr(e) == Err([kind |-> "Backend", inner |-> e])

Some(v) == [some |-> TRUE, v |-> v]
None == [some |-> FALSE]

CacheGet(st, name) ==
    IF name \in DOMAIN st.cache.buckets THEN Some(st.cache.buckets[name]) ELSE None

\* an insert that drops every other entry of the cache
CacheInsertReplacingAll(st, bucket) ==
    [st EXCEPT !.cache.buckets = [n \in {bucket.name} |-> bucket]]

CacheInsert(st, bucket) ==
    [st EXCEPT !.cache.buckets =
        [n \in DOMAIN st.cache.buckets \cup {bucket.name} |->
            IF n = bucket.name THEN bucket ELSE st.cache.buckets[n]]]

CacheRemove(st, name) ==
    [st EXCEPT !.cache.buckets =
        [n \in DOMAIN st.cache.buckets \ {name} |-> st.cache.buckets[n]]]

\* BucketCache::update: later entries of the list replace earlier ones of the same name
CacheUpdate(st, buckets, t) ==
    [st EXCEPT !.cache =
        [buckets |-> [n \in {b.name : b \in buckets} |->
                        CHOOSE b \in buckets : b.name = n],
         last_refresh |-> t]]

load_bucket_from_backend(st0, name) ==
    Let(local_get_object(st0, bucket_key(name)), LAMBDA g :
        IF g.res.ok
        THEN IF g.res.val.stream.kind = "error"
             THEN [st |-> g.st, res |-> SvcErr("Internal")]
             ELSE Let(FromJson("Bucket", g.res.val.stream), LAMBDA bucket :
                  IF bucket.ok THEN [st |-> g.st, res |-> Ok(Some(bucket.val))]
                  ELSE [st |-> g.st, res |-> SvcErr("Internal")])
        ELSE IF g.res.err = "NotFound" THEN [st |-> g.st, res |-> Ok(None)]
        ELSE [st |-> g.st, res |-> BackendErr(g.res.err)])

\* save_bucket that files the record under the bucket's id
save_bucket_under_id(st0, bucket, t) ==
    Let(local_put_object(st0, bucket_key(bucket.id), ToJson("Bucket", bucket),
                         "application/json", {}, t), LAMBDA p :
        IF p.res.ok THEN [st |-> p.st, res |-> Ok(Unit)]
        ELSE [st |-> p.st, res |-> BackendErr(p.res.err)])

save_bucket(st0, bucket, t) ==
    Let(local_put_object(st0, bucket_key(bucket.name), ToJson("Bucket", bucket),
                         "application/json", {}, t), LAMBDA p :
        IF p.res.ok THEN [st |-> p.st, res |-> Ok(Unit)]
        ELSE [st |-> p.st, res |-> BackendErr(p.res.err)])

delete_bucket_object(st0, name) ==
    Let(local_delete_object(st0, bucket_key(name)), LAMBDA d :
        IF d.res.ok THEN d ELSE [st |-> d.st, res |-> BackendErr(d.res.err)])

RECURSIVE LoadEach(_, _, _)
\* the loop of load_buckets_from_backend over the listed objects: acc holds the
\* request state, the buckets parsed and the number of read or parse errors
LoadEach(acc, listed, todo) ==
    IF todo = {} THEN acc
    ELSE Let(CHOOSE q \in todo : TRUE, LAMBDA p :
         Let(local_get_object(acc.st, listed[p].key), LAMBDA g :
         Let(IF g.res.ok /\ g.res.val.stream.kind # "error"
             THEN FromJson("Bucket", g.res.val.stream)
             ELSE Err("read"), LAMBDA bucket :
             LoadEach([st |-> g.st,
                       buckets |-> IF bucket.ok THEN acc.buckets \cup {bucket.val}
                                   ELSE acc.buckets,
                       errors |-> IF bucket.ok THEN acc.errors ELSE acc.errors + 1],
                      listed, todo \ {p}))))

\* load_buckets_from_backend, were it to fail on any entry that fails
load_buckets_from_backend_strict(st0) ==
    Let(local_list_objects(st0, BUCKETS_PREFIX), LAMBDA l :
        IF l.res.ok
        THEN Let(LoadEach([st |-> l.st, buckets |-> {}, errors |-> 0],
                          l.res.val, DOMAIN l.res.val), LAMBDA acc :
                 IF acc.errors > 0
                 THEN [st |-> acc.st, res |-> SvcErr("Internal")]
                 ELSE [st |-> acc.st, res |-> Ok(acc.buckets)])
        ELSE IF l.res.err = "NotFound" THEN [st |-> l.st, res |-> Ok({})]
        ELSE [st |-> l.st, res |-> BackendErr(l.res.err)])

load_buckets_from_backend(st0) ==
    Let(local_list_objects(st0, BUCKETS_PREFIX), LAMBDA l :
        IF l.res.ok
        THEN Let(LoadEach([st |-> l.st, buckets |-> {}, errors |-> 0],
                          l.res.val, DOMAIN l.res.val), LAMBDA acc :
                 IF acc.errors > 0 /\ acc.buckets = {}
                 THEN [st |-> acc.st, res |-> SvcErr("Internal")]
                 ELSE [st |-> acc.st, res |-> Ok(acc.buckets)])
        ELSE IF l.res.err = "NotFound" THEN [st |-> l.st, res |-> Ok({})]
        ELSE [st |-> l.st, res |-> BackendErr(l.res.err)])

refresh_cache(st0, t) ==
    Let(load_buckets_from_backend(st0), LAMBDA l :
        IF ~l.res.ok THEN l
        ELSE [st |-> CacheUpdate(l.st, l.res.val, t), res |-> Ok(Unit)])

NewBucket(name, t) == [id |-> generate_bucket_id(name), name |-> name, created_at |-> t]

\* create_bucket without the existence checks
meta_create_bucket_without_check(st0, name, t) ==
    IF ~is_valid_bucket_name(name) THEN [st |-> st0, res |-> SvcErr("InvalidBucketName")]
    ELSE Let(save_bucket(st0, NewBucket(name, t), t), LAMBDA saved :
         IF ~saved.res.ok THEN saved
         ELSE [st |-> CacheInsert(saved.st, NewBucket(name, t)),
               res |-> Ok(NewBucket(name, t))])

meta_create_bucket(st0, name, t) ==
    IF ~is_valid_bucket_name(name) THEN [st |-> st0, res |-> SvcErr("InvalidBucketName")]
    ELSE IF CacheGet(st0, name).some
    THEN [st |-> st0, res |-> SvcErr("BucketAlreadyExists")]
    ELSE Let(load_bucket_from_backend(st0, name), LAMBDA probe :
         IF ~probe.res.ok THEN probe
         ELSE IF probe.res.val.some
         THEN Let(load_bucket_from_backend(probe.st, name), LAMBDA again :
              IF ~again.res.ok THEN again
              ELSE [st |-> IF again.res.val.some
                           THEN CacheInsert(again.st, again.res.val.v)
                           ELSE again.st,
                    res |-> SvcErr("BucketAlreadyExists")])
         ELSE Let(save_bucket(probe.st, NewBucket(name, t), t), LAMBDA saved :
              IF ~saved.res.ok THEN saved
              ELSE [st |-> CacheInsert(saved.st, NewBucket(name, t)),
                    res |-> Ok(NewBucket(name, t))]))

\* get_bucket that answers from the cache alone
get_bucket_from_cache_only(st0, name, t) ==
    IF CacheGet(st0, name).some THEN [st |-> st0, res |-> Ok(CacheGet(st0, name).v)]
    ELSE [st |-> st0, res |-> SvcErr("BucketNotFound")]

get_bucket_tiers(st0, name, t) ==
    IF CacheGet(st0, name).some THEN [st |-> st0, res |-> Ok(CacheGet(st0, name).v)]
    ELSE Let(load_bucket_from_backend(st0, name), LAMBDA probe :
         IF ~probe.res.ok THEN probe
         ELSE IF probe.res.val.some
         THEN [st |-> CacheInsert(probe.st, probe.res.val.v),
               res |-> Ok(probe.res.val.v)]
         ELSE Let(refresh_cache(probe.st, t), LAMBDA r :
              IF ~r.res.ok THEN r
              ELSE IF CacheGet(r.st, name).some
              THEN [st |-> r.st, res |-> Ok(CacheGet(r.st, name).v)]
              ELSE [st |-> r.st, res |-> SvcErr("BucketNotFound")]))

\* MetadataStore::get_bucket, its completion recorded in the request's log
meta_get_bucket(st0, name, t) ==
    Let(get_bucket_tiers(st0, name, t), LAMBDA r :
        [st |-> Logged(r.st, IF r.res.ok THEN "get_bucket.ok" ELSE "get_bucket.err",
                       name),
         res |-> r.res])

meta_delete_bucket(st0, name, t) ==
    Let(meta_get_bucket(st0, name, t), LAMBDA g :
        IF ~g.res.ok THEN g
        ELSE Let(delete_bucket_object(g.st, name), LAMBDA d :
             IF ~d.res.ok THEN d
             ELSE [st |-> CacheRemove(d.st, name), res |-> Ok(Unit)]))

CACHE_TTL_SECONDS == 60

\* BucketCache::is_expired at time t
is_expired(st, t) == t - st.cache.last_refresh > CACHE_TTL_SECONDS

ensure_cache_fresh(st0, t) ==
    IF is_expired(st0, t) THEN refresh_cache(st0, t)
    ELSE [st |-> st0, res |-> Ok(Unit)]

\* BucketCache::all_buckets
all_buckets(st) == {st.cache.buckets[n] : n \in DOMAIN st.cache.buckets}

\* the search of the cached buckets for an id
FindById(st, id) ==
    Let({b \in all_buckets(st) : b.id = id}, LAMBDA hits :
        IF hits = {} THEN None ELSE Some(CHOOSE b \in hits : TRUE))

meta_get_bucket_by_id(st0, id, t) ==
    Let(ensure_cache_fresh(st0, t), LAMBDA e :
        IF ~e.res.ok THEN e
        ELSE IF FindById(e.st, id).some
        THEN [st |-> e.st, res |-> Ok(FindById(e.st, id).v)]
        ELSE Let(refresh_cache(e.st, t), LAMBDA r :
             IF ~r.res.ok THEN r
             ELSE IF FindById(r.st, id).some
             THEN [st |-> r.st, res |-> Ok(FindById(r.st, id).v)]
             ELSE [st |-> r.st, res |-> SvcErr("BucketNotFound")]))

RECURSIVE SortByCreatedAtAsc(_)
\* the sort with its comparison turned round: oldest first
SortByCreatedAtAsc(buckets) ==
    IF buckets = {} THEN <<>>
    ELSE Let(CHOOSE b \in buckets : \A o \in buckets : o.created_at >= b.created_at,
             LAMBDA oldest : <<oldest>> \o SortByCreatedAtAsc(buckets \ {oldest}))

RECURSIVE SortByCreatedAtDesc(_)
\* sort_by(|a, b| b.created_at.cmp(&a.created_at)): newest first
SortByCreatedAtDesc(buckets) ==
    IF buckets = {} THEN <<>>
    ELSE Let(CHOOSE b \in buckets : \A o \in buckets : o.created_at <= b.created_at,
             LAMBDA newest : <<newest>> \o SortByCreatedAtDesc(buckets \ {newest}))

meta_list_buckets(st0, t) ==
    Let(ensure_cache_fresh(st0, t), LAMBDA e :
        IF ~e.res.ok THEN e
        ELSE [st |-> e.st, res |-> Ok(SortByCreatedAtDesc(all_buckets(e.st)))])

-----------------------------------------------------------------------------
(* The MetadataStore: advisory locks *)

lock_key(resource) == LOCKS_PREFIX \o Slash \o resource

NewLock(resource, owner, ttl_seconds, t) ==
    [resource |-> resource, owner |-> owner, acquired_at |-> t,
     expires_at |-> t + ttl_seconds]

\* the Lock read from a get_object result: the stream collected and parsed
ReadLock(g) ==
    IF g.res.val.stream.kind = "error" THEN SvcErr("Internal")
    ELSE Let(FromJson("Lock", g.res.val.stream), LAMBDA l :
         IF l.ok THEN l ELSE SvcErr("Internal"))

\* the tail of try_acquire_lock, were it to look at the record again before writing
WriteLockUnlessHeld(st, resource, owner, ttl_seconds, t) ==
    IF /\ lock_key(resource) \in DOMAIN st.files
       /\ FromJson("Lock", st.files[lock_key(resource)]).ok
       /\ FromJson("Lock", st.files[lock_key(resource)]).val.expires_at > t
    THEN [st |-> st, res |-> Ok(FALSE)]
    ELSE Let(local_put_object(st, lock_key(resource),
                              ToJson("Lock", NewLock(resource, owner, ttl_seconds, t)),
                              "application/json", {}, t), LAMBDA write :
         IF write.res.ok THEN [st |-> write.st, res |-> Ok(TRUE)]
         ELSE [st |-> write.st, res |-> BackendErr(write.res.err)])

\* the tail of try_acquire_lock: the new Lock is written
WriteLock(st, resource, owner, ttl_seconds, t) ==
    Let(local_put_object(st, lock_key(resource),
                         ToJson("Lock", NewLock(resource, owner, ttl_seconds, t)),
                         "application/json", {}, t), LAMBDA write :
        IF write.res.ok THEN [st |-> write.st, res |-> Ok(TRUE)]
        ELSE [st |-> write.st, res |-> BackendErr(write.res.err)])

try_acquire_lock(st0, resource, owner, ttl_seconds, t) ==
    Let(local_get_object(st0, lock_key(resource)), LAMBDA g :
        IF g.res.ok
        THEN Let(ReadLock(g), LAMBDA existing_lock :
             IF ~existing_lock.ok THEN [st |-> g.st, res |-> existing_lock]
             ELSE IF existing_lock.val.expires_at > t
             THEN [st |-> g.st, res |-> Ok(FALSE)]
             ELSE WriteLock(g.st, resource, owner, ttl_seconds, t))
        ELSE IF g.res.err = "NotFound"
        THEN WriteLock(g.st, resource, owner, ttl_seconds, t)
        ELSE [st |-> g.st, res |-> BackendErr(g.res.err)])

release_lock(st0, resource, owner) ==
    Let(local_get_object(st0, lock_key(resource)), LAMBDA g :
        IF g.res.ok
        THEN Let(ReadLock(g), LAMBDA existing_lock :
             IF ~existing_lock.ok THEN [st |-> g.st, res |-> existing_lock]
             ELSE IF existing_lock.val.owner # owner
             THEN [st |-> g.st, res |-> SvcErr("LockAcquisition")]
             ELSE Let(local_delete_object(g.st, lock_key(resource)), LAMBDA d :
                  IF d.res.ok THEN d
                  ELSE [st |-> d.st, res |-> BackendErr(d.res.err)]))
        ELSE IF g.res.err = "NotFound" THEN [st |-> g.st, res |-> Ok(Unit)]
        ELSE [st |-> g.st, res |-> BackendErr(g.res.err)])

RECURSIVE CleanEach(_, _, _, _)
\* the loop of cleanup_expired_locks over the listed objects
CleanEach(acc, listed, todo, t) ==
    IF todo = {} THEN acc
    ELSE Let(CHOOSE q \in todo : TRUE, LAMBDA p :
         Let(local_get_object(acc.st, listed[p].key), LAMBDA g :
         Let(IF g.res.ok /\ g.res.val.stream.kind # "error"
             THEN FromJson("Lock", g.res.val.stream)
             ELSE Err("read"), LAMBDA lock :
             IF lock.ok /\ lock.val.expires_at < t
             THEN Let(local_delete_object(g.st, listed[p].key), LAMBDA d :
                  CleanEach([st |-> d.st,
                             cleaned |-> IF d.res.ok THEN acc.cleaned + 1
                                         ELSE acc.cleaned],
                            listed, todo \ {p}, t))
             ELSE CleanEach([st |-> g.st, cleaned |-> acc.cleaned],
                            listed, todo \ {p}, t))))

cleanup_expired_locks(st0, t) ==
    Let(local_list_objects(st0, LOCKS_PREFIX), LAMBDA l :
        IF l.res.ok
        THEN Let(CleanEach([st |-> l.st, cleaned |-> 0], l.res.val,
                           DOMAIN l.res.val, t), LAMBDA acc :
                 [st |-> acc.st, res |-> Ok(acc.cleaned)])
        ELSE IF l.res.err = "NotFound" THEN [st |-> l.st, res |-> Ok(0)]
        ELSE [st |-> l.st, res |-> BackendErr(l.res.err)])

-----------------------------------------------------------------------------
(* The Service *)

\* validate_object_key without its check of the reserved name ".bucket"
validate_object_key_without_reserved(key) ==
    IF key = <<>> THEN SvcErr("InvalidObjectKey")
    ELSE IF Contains(key, DotDot) \/ StartsWith(key, Slash)
    THEN SvcErr("InvalidObjectKey")
    ELSE Ok(Unit)

validate_object_key_leading_dotdot(key) ==
    IF key = <<>> THEN SvcErr("InvalidObjectKey")
    ELSE IF StartsWith(key, DotDot) \/ StartsWith(key, Slash)
    THEN SvcErr("InvalidObjectKey")
    ELSE IF key = BucketMarkerName THEN SvcErr("InvalidObjectKey")
    ELSE Ok(Unit)

validate_object_key(key) ==
    IF key = <<>> THEN SvcErr("InvalidObjectKey")
    ELSE IF Contains(key, DotDot) \/ StartsWith(key, Slash)
    THEN SvcErr("InvalidObjectKey")
    ELSE IF key = BucketMarkerName THEN SvcErr("InvalidObjectKey")
    ELSE Ok(Unit)

\* a full key that leaves the bucket name out
full_key_without_bucket(bucket, key) == key

\* format!("{}/{}", bucket, key)
full_key(bucket, key) == bucket \o Slash \o key

bucket_marker(name) == name \o SlashBucketMarker

FromBackend(r) == IF r.res.ok THEN r ELSE [st |-> r.st, res |-> BackendErr(r.res.err)]

\* the head of every data-plane operation on a key: get_bucket, then
\* validate_object_key; Ok carries nothing
Checked(st0, bucket, key, t) ==
    Let(meta_get_bucket(st0, bucket, t), LAMBDA g :
        IF ~g.res.ok THEN g
        ELSE [st |-> g.st, res |-> validate_object_key(key)])

svc_create_bucket(st0, name, t) ==
    Let(meta_create_bucket(st0, name, t), LAMBDA c :
        IF ~c.res.ok THEN c
        ELSE Let(local_put_object(c.st, bucket_marker(name), Raw(<<>>),
                                  "None", {}, t), LAMBDA m :
             IF ~m.res.ok THEN FromBackend(m)
             ELSE [st |-> m.st, res |-> c.res]))

\* upsert_bucket that never looks for the bucket
svc_upsert_bucket_always_creates(st0, name, t) == svc_create_bucket(st0, name, t)

svc_upsert_bucket(st0, name, t) ==
    Let(meta_get_bucket(st0, name, t), LAMBDA g :
        IF g.res.ok THEN g ELSE svc_create_bucket(g.st, name, t))

\* the prefix of a list request that gives none
NoPrefix == <<"None">>

svc_list_objects(st0, bucket, prefix, t) ==
    Let(meta_get_bucket(st0, bucket, t), LAMBDA g :
        IF ~g.res.ok THEN g
        ELSE Let(local_list_objects(g.st, IF prefix = NoPrefix THEN bucket \o Slash
                                          ELSE full_key(bucket, prefix)), LAMBDA l :
             IF ~l.res.ok THEN FromBackend(l)
             ELSE Let(l.res.val, LAMBDA objects :
                  [st |-> l.st,
                   res |-> Ok([p \in {q \in DOMAIN objects :
                                        ~EndsWith(objects[q].key, SlashBucketMarker)} |->
                      IF StartsWith(objects[p].key, bucket \o Slash)
                      THEN [objects[p] EXCEPT !.key = StripPrefix(@, bucket \o Slash)]
                      ELSE objects[p]])])))

\* delete_bucket that removes the catalog record and leaves the marker alone
svc_delete_bucket_without_marker(st0, name, t) ==
    Let(meta_get_bucket(st0, name, t), LAMBDA g :
        IF ~g.res.ok THEN g
        ELSE Let(svc_list_objects(g.st, name, NoPrefix, t), LAMBDA objects :
             IF ~objects.res.ok THEN objects
             ELSE IF DOMAIN objects.res.val # {}
             THEN [st |-> objects.st, res |-> SvcErr("Internal")]
             ELSE meta_delete_bucket(objects.st, name, t)))

svc_delete_bucket(st0, name, t) ==
    Let(meta_get_bucket(st0, name, t), LAMBDA g :
        IF ~g.res.ok THEN g
        ELSE Let(svc_list_objects(g.st, name, NoPrefix, t), LAMBDA objects :
             IF ~objects.res.ok THEN objects
             ELSE IF DOMAIN objects.res.val # {}
             THEN [st |-> objects.st, res |-> SvcErr("Internal")]
             ELSE meta_delete_bucket(
                      local_delete_object(objects.st, bucket_marker(name)).st,
                      name, t)))

svc_put_object(st0, bucket, key, body, content_type, custom_metadata, t) ==
    Let(Checked(st0, bucket, key, t), LAMBDA c :
        IF ~c.res.ok THEN c
        ELSE FromBackend(local_put_object(c.st, full_key(bucket, key), body,
                                          content_type, custom_metadata, t)))

svc_get_object(st0, bucket, key, t) ==
    Let(Checked(st0, bucket, key, t), LAMBDA c :
        IF ~c.res.ok THEN c
        ELSE FromBackend(local_get_object(c.st, full_key(bucket, key))))

svc_head_object(st0, bucket, key, t) ==
    Let(Checked(st0, bucket, key, t), LAMBDA c :
        IF ~c.res.ok THEN c
        ELSE FromBackend(local_head_object(c.st, full_key(bucket, key))))

\* delete_object that calls the backend before it has checked the bucket
svc_delete_object_before_check(st0, bucket, key, t) ==
    IF ~validate_object_key(key).ok
    THEN [st |-> st0, res |-> validate_object_key(key)]
    ELSE Let(local_delete_object(st0, full_key(bucket, key)), LAMBDA d :
         Let(meta_get_bucket(d.st, bucket, t), LAMBDA g :
             IF ~g.res.ok THEN g
             ELSE [st |-> g.st, res |-> FromBackend(d).res]))

svc_delete_object(st0, bucket, key, t) ==
    Let(Checked(st0, bucket, key, t), LAMBDA c :
        IF ~c.res.ok THEN c
        ELSE FromBackend(local_delete_object(c.st, full_key(bucket, key))))

svc_object_exists(st0, bucket, key, t) ==
    Let(Checked(st0, bucket, key, t), LAMBDA c :
        IF ~c.res.ok THEN c
        ELSE FromBackend(local_object_exists(c.st, full_key(bucket, key))))

svc_get_public_url(st0, bucket, key, t) ==
    Let(Checked(st0, bucket, key, t), LAMBDA c :
        IF ~c.res.ok THEN c
        ELSE FromBackend(local_get_public_url(c.st, full_key(bucket, key))))

-----------------------------------------------------------------------------
(* Requests run one after another (each handler runs to completion)           *)

\* the inputs the requests are drawn from
BucketNames == {ValidName, ShortName}

KeyFT == <<"f", ".", "t">>
KeyFD == <<"f", ".", "d">>
KeySubMarker == <<"s", "/", ".", "b", "u", "c", "k", "e", "t">>
ValidKeys == {KeyFT, KeyFD, KeySubMarker}
InvalidKeys == {<<>>, BucketMarkerName, <<"/", "f">>, <<"a", ".", ".", "b">>}
Keys == ValidKeys \cup InvalidKeys

Bodies == {Raw(<<1>>), Raw(<<2, 2>>)}
TextPlain == "text/plain"
Prefixes == {NoPrefix, <<>>, <<"f">>, KeyFT, <<"s", "/">>, <<"s">>}

NoTasks == [t \in {} |-> "idle"]

\* the state a request starts from, and the state it leaves
St(fault) == [files |-> files, dirs |-> dirs, cache |-> cache, log |-> <<>>,
              fault |-> fault]

Commit(r) ==
    /\ files' = r.st.files
    /\ dirs' = r.st.dirs
    /\ cache' = r.st.cache

\* the request's record: its fault is recorded when it hit a backend call
Done(op, bucket, key, arg, r) ==
    last' = [op |-> op, bucket |-> bucket, key |-> key, arg |-> arg,
             res |-> r.res, log |-> r.st.log,
             fault |-> IF r.st.fault.at \in 1..Len(BackendCalls(r.st.log))
                       THEN r.st.fault ELSE NoFault]

NoArg == Raw(<<>>)

\* the state after MetadataStore::new on an empty, initialised Local backend
Init ==
    /\ files = <<>>
    /\ dirs = {<<>>}
    /\ cache = [buckets |-> <<>>, last_refresh |-> 0]
    /\ now = 0
    /\ last = [op |-> "new", bucket |-> <<>>, key |-> <<>>, arg |-> NoArg,
               res |-> Ok(Unit), log |-> <<>>, fault |-> NoFault]
    /\ stored = <<>>
    /\ created = <<>>
    /\ pc = NoTasks
    /\ loc = NoTasks

CreateBucket(name, fault) ==
    \E r \in {svc_create_bucket(St(fault), name, now)} :
        /\ Commit(r)
        /\ Done("create_bucket", name, <<>>, NoArg, r)
        /\ created' = IF r.res.ok
                      THEN [n \in DOMAIN created \cup {name} |->
                              IF n = name THEN r.res.val ELSE created[n]]
                      ELSE created
        /\ UNCHANGED <<now, stored, pc, loc>>

DeleteBucket(name, fault) ==
    \E r \in {svc_delete_bucket(St(fault), name, now)} :
        /\ Commit(r)
        /\ Done("delete_bucket", name, <<>>, NoArg, r)
        /\ created' = IF r.res.ok THEN [n \in DOMAIN created \ {name} |-> created[n]]
                      ELSE created
        /\ UNCHANGED <<now, stored, pc, loc>>

PutObject(bucket, key, body, content_type) ==
    \E r \in {svc_put_object(St(NoFault), bucket, key, body, content_type, {}, now)},
       k \in {<<bucket, key>>} :
        /\ Commit(r)
        /\ Done("put_object", bucket, key, body, r)
        /\ stored' = IF r.res.ok
                     THEN [x \in DOMAIN stored \cup {k} |->
                             IF x = k THEN [body |-> body, metadata |-> r.res.val]
                             ELSE stored[x]]
                     ELSE stored
        /\ UNCHANGED <<now, created, pc, loc>>

GetObject(bucket, key) ==
    \E r \in {svc_get_object(St(NoFault), bucket, key, now)} :
        /\ Commit(r)
        /\ Done("get_object", bucket, key, NoArg, r)
        /\ UNCHANGED <<now, stored, created, pc, loc>>

HeadObject(bucket, key) ==
    \E r \in {svc_head_object(St(NoFault), bucket, key, now)} :
        /\ Commit(r)
        /\ Done("head_object", bucket, key, NoArg, r)
        /\ UNCHANGED <<now, stored, created, pc, loc>>

DeleteObject(bucket, key) ==
    \E r \in {svc_delete_object(St(NoFault), bucket, key, now)},
       k \in {<<bucket, key>>} :
        /\ Commit(r)
        /\ Done("delete_object", bucket, key, NoArg, r)
        /\ stored' = IF r.res.ok THEN [x \in DOMAIN stored \ {k} |-> stored[x]]
                     ELSE stored
        /\ UNCHANGED <<now, created, pc, loc>>

ListObjects(bucket, prefix) ==
    \E r \in {svc_list_objects(St(NoFault), bucket, prefix, now)} :
        /\ Commit(r)
        /\ Done("list_objects", bucket, prefix, NoArg, r)
        /\ UNCHANGED <<now, stored, created, pc, loc>>

ObjectExists(bucket, key) ==
    \E r \in {svc_object_exists(St(NoFault), bucket, key, now)} :
        /\ Commit(r)
        /\ Done("object_exists", bucket, key, NoArg, r)
        /\ UNCHANGED <<now, stored, created, pc, loc>>

GetPublicUrl(bucket, key) ==
    \E r \in {svc_get_public_url(St(NoFault), bucket, key, now)} :
        /\ Commit(r)
        /\ Done("get_public_url", bucket, key, NoArg, r)
        /\ UNCHANGED <<now, stored, created, pc, loc>>

Next ==
    \/ \E name \in BucketNames : CreateBucket(name, NoFault)
    \/ DeleteBucket(ValidName, NoFault)
    \/ \E key \in Keys, body \in Bodies : PutObject(ValidName, key, body, TextPlain)
    \/ \E key \in Keys : GetObject(ValidName, key)
    \/ \E key \in Keys : HeadObject(ValidName, key)
    \/ \E key \in Keys : DeleteObject(ValidName, key)
    \/ \E prefix \in Prefixes : ListObjects(ValidName, prefix)
    \/ \E key \in Keys : ObjectExists(ValidName, key)
    \/ \E key \in Keys : GetPublicUrl(ValidName, key)

Spec == Init /\ [][Next]_vars

-----------------------------------------------------------------------------
(* Claims about requests run one after another *)

\* the catalog record of bucket name is in the backend
HasCatalogRecord(name) == bucket_key(name) \in DOMAIN files

\* C1: after put_object(B, K, bytes) succeeded, with no later put or delete on
\* (B, K) and B still existing, every get_object(B, K) succeeds and returns body
\* bytes, size len(bytes) and the non-empty ETag that the put returned.
C1_PutThenGetReturnsWhatWasPut ==
    (/\ last.op = "get_object"
     /\ <<last.bucket, last.key>> \in DOMAIN stored
     /\ HasCatalogRecord(last.bucket))
    => LET put == stored[<<last.bucket, last.key>>]
       IN  /\ last.res.ok
           /\ last.res.val.stream = put.body
           /\ last.res.val.metadata.size = BodyLen(put.body)
           /\ last.res.val.metadata.etag = put.metadata.etag
           /\ Len(last.res.val.metadata.etag) > 0

\* the keys a request on bucket B may touch only once B is known to exist
UnderBucket(key, bucket) == StartsWith(key, bucket \o Slash)

\* the objects of bucket B put and not deleted since, by key
UserKeys(bucket) == {k \in ValidKeys : <<bucket, k>> \in DOMAIN stored}

ListedKeys(res) == {res[p].key : p \in DOMAIN res}

PrefixText(prefix) == IF prefix = NoPrefix THEN <<>> ELSE prefix

\* C7: on an existing bucket B, list_objects(B, prefix = P, max_keys = None)
\* returns exactly the user objects of B whose key starts with P (also for a P
\* that ends inside a path segment), each key without its "B/" prefix, and never
\* the marker .bucket.
C7_ListReturnsExactlyThePrefixedObjects ==
    (last.op = "list_objects" /\ HasCatalogRecord(last.bucket))
    => /\ last.res.ok
       /\ ListedKeys(last.res.val) =
             {k \in UserKeys(last.bucket) : StartsWith(k, PrefixText(last.key))}
       /\ Cardinality(DOMAIN last.res.val) = Cardinality(ListedKeys(last.res.val))
       /\ BucketMarkerName \notin ListedKeys(last.res.val)

KeyOps == {"put_object", "get_object", "head_object", "delete_object",
           "object_exists", "get_public_url"}
DataPlaneOps == KeyOps \cup {"list_objects"}

\* C8 as claimed: a key rejected by validate_object_key makes every data-plane
\* operation that takes a key fail with InvalidObjectKey before any backend call,
\* whatever the bucket cache holds and whether or not the bucket exists.
C8_InvalidKeyFailsBeforeAnyBackendCall ==
    (last.op \in KeyOps /\ last.key \in InvalidKeys)
    => /\ ~last.res.ok
       /\ last.res.err.kind = "InvalidObjectKey"
       /\ BackendCalls(last.log) = <<>>

\* C8 as amended: a key rejected by validate_object_key makes every data-plane
\* operation that takes a key fail before any backend call on a key under "B/";
\* the bucket-existence check runs first (and may read the catalog), so the
\* failure is InvalidObjectKey when the bucket exists and BucketNotFound when it
\* does not.
C8_InvalidKeyFailsBeforeAnyObjectCall ==
    (last.op \in KeyOps /\ last.key \in InvalidKeys)
    => /\ ~last.res.ok
       /\ last.res.err.kind =
             IF HasCatalogRecord(last.bucket) THEN "InvalidObjectKey"
             ELSE "BucketNotFound"
       /\ \A i \in 1..Len(last.log) : ~UnderBucket(last.log[i].key, last.bucket)

C8_Witness ==
    /\ last.op = "put_object"
    /\ last.key = BucketMarkerName
    /\ ~last.res.ok
    /\ last.res.err.kind = "InvalidObjectKey"
    /\ HasCatalogRecord(last.bucket)

\* C9: in every data-plane operation on bucket B, get_bucket(B) has completed
\* with success before any backend call on a key under "B/"; when get_bucket(B)
\* fails, the operation returns that error and makes no backend call under "B/".
C9_BucketCheckBeforeObjectCalls ==
    last.op \in DataPlaneOps
    => /\ \A i \in 1..Len(last.log) :
             UnderBucket(last.log[i].key, last.bucket)
             => \E j \in 1..(i - 1) :
                   last.log[j] = [op |-> "get_bucket.ok", key |-> last.bucket]
       /\ (\E j \in 1..Len(last.log) : last.log[j].op = "get_bucket.err")
          => /\ ~last.res.ok
             /\ last.res.err.kind = "BucketNotFound"
             /\ \A i \in 1..Len(last.log) :
                   ~UnderBucket(last.log[i].key, last.bucket)

C9_Witness ==
    /\ last.op = "put_object"
    /\ last.res.ok
    /\ Len(last.log) = 2
    /\ last.log[1] = [op |-> "get_bucket.ok", key |-> last.bucket]
    /\ UnderBucket(last.log[2].key, last.bucket)

\* C10: delete_bucket(B) on an existing bucket that holds a user object fails
\* with Internal and changes neither the catalog record, the marker, the cache
\* nor any object; when B holds no user object, delete_bucket(B) succeeds.
C10_DeleteBucketRefusesNonEmpty ==
    [][(last'.op = "delete_bucket" /\ HasCatalogRecord(last'.bucket))
       => IF UserKeys(last'.bucket) # {}
          THEN /\ ~last'.res.ok
               /\ last'.res.err.kind = "Internal"
               /\ files' = files /\ dirs' = dirs /\ cache' = cache
          ELSE last'.res.ok]_vars

-----------------------------------------------------------------------------
(* The advisory locks, requests run one after another, with the clock *)

MaxTime == 3

ResourceA == <<"r", ".", "a">>
ResourceB == <<"r", ".", "b">>
Resources == {ResourceA, ResourceB}
Owners == {"worker-0", "worker-1"}
Ttls == {1, 2}

Tick ==
    /\ now < MaxTime
    /\ now' = now + 1
    /\ last' = [op |-> "tick", bucket |-> <<>>, key |-> <<>>, arg |-> NoArg,
                res |-> Ok(Unit), log |-> <<>>, fault |-> NoFault]
    /\ UNCHANGED <<files, dirs, cache, stored, created, pc, loc>>

TryAcquireLock(resource, owner, ttl_seconds) ==
    \E r \in {try_acquire_lock(St(NoFault), resource, owner, ttl_seconds, now)} :
        /\ Commit(r)
        /\ Done("try_acquire_lock", <<>>, resource,
                [owner |-> owner, ttl_seconds |-> ttl_seconds], r)
        /\ UNCHANGED <<now, stored, created, pc, loc>>

ReleaseLock(resource, owner) ==
    \E r \in {release_lock(St(NoFault), resource, owner)} :
        /\ Commit(r)
        /\ Done("release_lock", <<>>, resource, [owner |-> owner], r)
        /\ UNCHANGED <<now, stored, created, pc, loc>>

CleanupExpiredLocks ==
    \E r \in {cleanup_expired_locks(St(NoFault), now)} :
        /\ Commit(r)
        /\ Done("cleanup_expired_locks", <<>>, <<>>, NoArg, r)
        /\ UNCHANGED <<now, stored, created, pc, loc>>

NextLock ==
    \/ \E resource \in Resources, owner \in Owners, ttl \in Ttls :
           TryAcquireLock(resource, owner, ttl)
    \/ \E resource \in Resources, owner \in Owners : ReleaseLock(resource, owner)
    \/ CleanupExpiredLocks
    \/ Tick

SpecLock == Init /\ [][NextLock]_vars

\* the lock record of a resource is a file of the backend
HasLockRecord(resource) == PathJoin(lock_key(resource)) \in DOMAIN files
LockRecord(resource) == files[PathJoin(lock_key(resource))].data

\* C5: try_acquire_lock(R, owner, ttl) at time now returns false and leaves the
\* lock record unchanged iff a record for R exists with expires_at > now (also
\* when the caller owns it); otherwise it returns true and the stored record
\* becomes {owner, acquired_at = now, expires_at = now + ttl}.
C5_AcquireIffNoUnexpiredRecord ==
    [][last'.op = "try_acquire_lock"
       => IF HasLockRecord(last'.key) /\ LockRecord(last'.key).expires_at > now
          THEN /\ last'.res = Ok(FALSE)
               /\ files' = files
          ELSE /\ last'.res = Ok(TRUE)
               /\ PathJoin(lock_key(last'.key)) \in DOMAIN files'
               /\ files'[PathJoin(lock_key(last'.key))] =
                     ToJson("Lock", NewLock(last'.key, last'.arg.owner,
                                            last'.arg.ttl_seconds, now))]_vars

\* C6: release_lock(R, owner) succeeds without a backend write when R has no lock
\* record; fails with LockAcquisition and leaves the record unchanged when the
\* stored owner differs; and deletes the record when the stored owner is owner,
\* expired or not.
C6_ReleaseByOwnerOnly ==
    [][last'.op = "release_lock"
       => IF ~HasLockRecord(last'.key)
          THEN /\ last'.res.ok
               /\ files' = files
               /\ \A i \in 1..Len(last'.log) : last'.log[i].op = "get_object"
          ELSE IF LockRecord(last'.key).owner # last'.arg.owner
          THEN /\ ~last'.res.ok
               /\ last'.res.err.kind = "LockAcquisition"
               /\ files' = files
          ELSE /\ last'.res.ok
               /\ PathJoin(lock_key(last'.key)) \notin DOMAIN files']_vars

-----------------------------------------------------------------------------
(* The bucket lifecycle, requests run one after another, with the clock and   *)
(* with restarts of the gateway                                               *)

LifecycleNames == {ValidName, SecondName, ShortName}

\* MetadataStore::new on the backend as it stands: an empty cache, refreshed
Restart ==
    \E r \in {refresh_cache([St(NoFault) EXCEPT
                                  !.cache = [buckets |-> <<>>, last_refresh |-> 0]],
                              now)} :
        /\ r.res.ok
        /\ Commit(r)
        /\ Done("new", <<>>, <<>>, NoArg, r)
        /\ UNCHANGED <<now, stored, created, pc, loc>>

UpsertBucket(name, fault) ==
    \E r \in {svc_upsert_bucket(St(fault), name, now)} :
        /\ Commit(r)
        /\ Done("upsert_bucket", name, <<>>, NoArg, r)
        /\ created' = IF r.res.ok /\ name \notin DOMAIN created
                      THEN [n \in DOMAIN created \cup {name} |->
                              IF n = name THEN r.res.val ELSE created[n]]
                      ELSE created
        /\ UNCHANGED <<now, stored, pc, loc>>

NextBucket ==
    \/ \E name \in LifecycleNames : CreateBucket(name, NoFault)
    \/ \E name \in LifecycleNames : DeleteBucket(name, NoFault)
    \/ \E name \in LifecycleNames : UpsertBucket(name, NoFault)
    \/ Restart
    \/ Tick

SpecBucket == Init /\ [][NextBucket]_vars

\* the catalog records that name a bucket
CatalogRecordsOf(fs, name) ==
    {p \in DOMAIN fs : fs[p].kind = "Bucket" /\ fs[p].data.name = name}

\* C3: when create_bucket(N) has succeeded and the bucket has not been deleted, a
\* second create_bucket(N) fails with BucketAlreadyExists, writes nothing to the
\* backend, and exactly one catalog record exists, at .metadata/buckets/N.json,
\* with the content written by the first call.
C3_SecondCreateFailsAndWritesNothing ==
    [][(last'.op = "create_bucket" /\ last'.bucket \in DOMAIN created)
       => /\ ~last'.res.ok
          /\ last'.res.err.kind = "BucketAlreadyExists"
          /\ files' = files
          /\ dirs' = dirs
          /\ \A i \in 1..Len(last'.log) :
                last'.log[i].op \notin {"put_object", "delete_object"}
          /\ CatalogRecordsOf(files', last'.bucket) = {PathJoin(bucket_key(last'.bucket))}
          /\ files'[PathJoin(bucket_key(last'.bucket))] =
                ToJson("Bucket", created[last'.bucket])]_vars

\* a second create_bucket has failed at a later time than the first one's
C3_Witness ==
    /\ last.op = "create_bucket"
    /\ ~last.res.ok
    /\ last.res.err.kind = "BucketAlreadyExists"
    /\ last.bucket \in DOMAIN created
    /\ created[last.bucket].created_at < now

-----------------------------------------------------------------------------
(* The bucket lifecycle when backend calls fail *)

MaxFaultAt == 5

\* at most one backend call of a request fails
Faults ==
    {NoFault} \cup [at : 1..MaxFaultAt, kind : {"early", "mid", "late"}]

NextFault ==
    \/ \E fault \in Faults : CreateBucket(ValidName, fault)
    \/ \E fault \in Faults : DeleteBucket(ValidName, fault)

SpecFault == Init /\ [][NextFault]_vars

HasMarker(name) == PathJoin(bucket_marker(name)) \in DOMAIN files

\* the backend call of the last request that the fault has hit, if any
FailedCall ==
    IF last.fault.at \in 1..Len(BackendCalls(last.log))
    THEN {BackendCalls(last.log)[last.fault.at]}
    ELSE {}

\* C4 as stated: after every successful Service.create_bucket(N) the catalog
\* record and the marker N/.bucket both exist, and after every successful
\* Service.delete_bucket(N) both are absent, also when backend calls fail.
C4_RecordAndMarkerTogether ==
    /\ (last.op = "create_bucket" /\ last.res.ok)
       => HasCatalogRecord(last.bucket) /\ HasMarker(last.bucket)
    /\ (last.op = "delete_bucket" /\ last.res.ok)
       => ~HasCatalogRecord(last.bucket) /\ ~HasMarker(last.bucket)

\* C4: after every successful Service.create_bucket(N) the catalog record and
\* the marker N/.bucket both exist and read back; after every successful
\* Service.delete_bucket(N) the catalog record is absent, and the marker is
\* absent too unless the delete_object call on the marker is the call that failed.
C4_RecordAndMarkerUnlessMarkerDeleteFailed ==
    /\ (last.op = "create_bucket" /\ last.res.ok)
       => /\ HasCatalogRecord(last.bucket)
          /\ HasMarker(last.bucket)
          /\ local_get_object(St(NoFault), bucket_key(last.bucket)).res.ok
          /\ local_get_object(St(NoFault), bucket_marker(last.bucket)).res.ok
    /\ (last.op = "delete_bucket" /\ last.res.ok)
       => /\ ~HasCatalogRecord(last.bucket)
          /\ HasMarker(last.bucket)
             => FailedCall = {[op |-> "delete_object",
                               key |-> bucket_marker(last.bucket)]}

\* delete_bucket has succeeded although its delete_object call on the marker
\* failed: the catalog record is gone and the marker is left behind
C4_Witness ==
    /\ last.op = "delete_bucket"
    /\ last.res.ok
    /\ FailedCall = {[op |-> "delete_object", key |-> bucket_marker(last.bucket)]}
    /\ ~HasCatalogRecord(last.bucket)
    /\ HasMarker(last.bucket)

-----------------------------------------------------------------------------
(* Concurrent MetadataStore::create_bucket calls in one gateway. A call is a   *)
(* task that runs from one await point to the next in one step: the cache     *)
(* check under the read lock, the backend probe, the second probe under the   *)
(* cache's write lock, the catalog write, the cache insert.                   *)

MaxTasks == 3

Tasks == 1..MaxTasks
RaceNames == {ValidName, ShortName}

Pending == [ok |-> FALSE, err |-> [kind |-> "Pending", inner |-> "-"]]

\* the cache's write lock is held across the second probe only
WriteLocked == \E t \in DOMAIN pc : pc[t] = "reprobe"

At(t, point) == t \in DOMAIN pc /\ pc[t] = point

Goto(t, point) ==
    /\ pc' = [pc EXCEPT ![t] = point]
    /\ UNCHANGED loc

Return(t, res) ==
    /\ pc' = [pc EXCEPT ![t] = "done"]
    /\ loc' = [loc EXCEPT ![t].res = res]

\* a call of the given kind starts as task t: "create_bucket" is
\* MetadataStore::create_bucket, "service" is Service::create_bucket (the marker is
\* written after it), "upsert" is Service::upsert_bucket (get_bucket runs before it)
Start(t, kind, name, point) ==
    /\ t \notin DOMAIN pc
    /\ t = Cardinality(DOMAIN pc) + 1
    /\ pc' = [u \in DOMAIN pc \cup {t} |-> IF u # t THEN pc[u] ELSE point]
    /\ loc' = [u \in DOMAIN loc \cup {t} |->
                IF u # t THEN loc[u]
                ELSE [kind |-> kind, name |-> name, bucket |-> NewBucket(name, now),
                      found |-> {},
                      res |-> IF point = "done" THEN SvcErr("InvalidBucketName")
                              ELSE Pending]]
    /\ UNCHANGED <<files, dirs, cache, now, last, stored, created>>

\* the call starts: the name is validated and the Bucket value is built
Begin(t, name) ==
    Start(t, "create_bucket", name,
          IF is_valid_bucket_name(name) THEN "check" ELSE "done")

CheckCache(t) ==
    /\ At(t, "check")
    /\ ~WriteLocked
    /\ IF CacheGet(St(NoFault), loc[t].name).some
       THEN Return(t, SvcErr("BucketAlreadyExists"))
       ELSE Goto(t, "probe")
    /\ UNCHANGED <<files, dirs, cache, now, last, stored, created>>

Probe(t) ==
    /\ At(t, "probe")
    /\ \E r \in {load_bucket_from_backend(St(NoFault), loc[t].name)} :
           /\ Commit(r)
           /\ IF ~r.res.ok THEN Return(t, r.res)
              ELSE IF r.res.val.some THEN Goto(t, "lock")
              ELSE Goto(t, "save")
    /\ UNCHANGED <<now, last, stored, created>>

LockCache(t) ==
    /\ At(t, "lock")
    /\ ~WriteLocked
    /\ Goto(t, "reprobe")
    /\ UNCHANGED <<files, dirs, cache, now, last, stored, created>>

Reprobe(t) ==
    /\ At(t, "reprobe")
    /\ \E r \in {load_bucket_from_backend(St(NoFault), loc[t].name)} :
           IF ~r.res.ok THEN Commit(r) /\ Return(t, r.res)
           ELSE /\ Commit([st |-> IF r.res.val.some
                                  THEN CacheInsert(r.st, r.res.val.v) ELSE r.st])
                /\ Return(t, SvcErr("BucketAlreadyExists"))
    /\ UNCHANGED <<now, last, stored, created>>

Save(t) ==
    /\ At(t, "save")
    /\ \E r \in {save_bucket(St(NoFault), loc[t].bucket, now)} :
           /\ Commit(r)
           /\ IF ~r.res.ok THEN Return(t, r.res) ELSE Goto(t, "insert")
    /\ UNCHANGED <<now, last, stored, created>>

Insert(t) ==
    /\ At(t, "insert")
    /\ ~WriteLocked
    /\ Commit([st |-> CacheInsert(St(NoFault), loc[t].bucket)])
    /\ IF loc[t].kind = "create_bucket" THEN Return(t, Ok(loc[t].bucket))
       ELSE Goto(t, "marker")
    /\ UNCHANGED <<now, last, stored, created>>

NextRace ==
    \/ \E t \in Tasks, name \in RaceNames : Begin(t, name)
    \/ \E t \in Tasks : CheckCache(t)
    \/ \E t \in Tasks : Probe(t)
    \/ \E t \in Tasks : LockCache(t)
    \/ \E t \in Tasks : Reprobe(t)
    \/ \E t \in Tasks : Save(t)
    \/ \E t \in Tasks : Insert(t)

SpecRace == Init /\ [][NextRace]_vars

Returned(name) == {t \in DOMAIN pc : pc[t] = "done" /\ loc[t].name = name}

\* C2: of the create_bucket calls on one valid name N that run concurrently in
\* one gateway, at most one returns success and every other one fails with
\* BucketAlreadyExists.
C2_AtMostOneCreateSucceeds ==
    \A name \in {n \in RaceNames : is_valid_bucket_name(n)} :
        /\ Cardinality({t \in Returned(name) : loc[t].res.ok}) <= 1
        /\ \A t \in Returned(name) :
              ~loc[t].res.ok => loc[t].res.err.kind = "BucketAlreadyExists"

-----------------------------------------------------------------------------
(* Claims about upsert_bucket *)

WritesOf(log) == SelectSeq(log, LAMBDA e : e.op \in {"put_object", "delete_object"})

\* C11: upsert_bucket(N) returns the existing Bucket unchanged, with no backend
\* write, whenever get_bucket(N) succeeds, and otherwise does what create_bucket(N)
\* does; so sequential upsert_bucket(N) calls return the same record.
C11_UpsertReturnsExistingOrCreates ==
    [][last'.op = "upsert_bucket"
       => LET g == meta_get_bucket(St(NoFault), last'.bucket, now)
              c == svc_create_bucket(St(NoFault), last'.bucket, now)
          IN  IF g.res.ok
              THEN /\ last'.res = g.res
                   /\ files' = files
                   /\ dirs' = dirs
                   /\ WritesOf(last'.log) = <<>>
                   /\ last'.bucket \in DOMAIN created
                      => last'.res.val = created[last'.bucket]
              ELSE /\ last'.res = c.res
                   /\ files' = c.st.files
                   /\ dirs' = c.st.dirs
                   /\ cache'.buckets = c.st.cache.buckets]_vars

\* an upsert_bucket has returned, at a later time, the record of an earlier call
C11_Witness ==
    /\ last.op = "upsert_bucket"
    /\ last.res.ok
    /\ WritesOf(last.log) = <<>>
    /\ last.bucket \in DOMAIN created
    /\ last.res.val = created[last.bucket]
    /\ last.res.val.created_at < now

-----------------------------------------------------------------------------
(* Concurrent Service::upsert_bucket calls in one gateway: get_bucket step by  *)
(* step (cache check, backend probe, cache insert or full refresh and second  *)
(* cache read), then Service::create_bucket when get_bucket failed.            *)

MaxUpsertTasks == 2

BeginUpsert(t, name) == Start(t, "upsert", name, "g_check")

\* upsert_bucket goes on to create_bucket: the name is validated, the Bucket built
EnterCreate(t) ==
    IF is_valid_bucket_name(loc[t].name)
    THEN /\ pc' = [pc EXCEPT ![t] = "check"]
         /\ loc' = [loc EXCEPT ![t].bucket = NewBucket(loc[t].name, now)]
    ELSE Return(t, SvcErr("InvalidBucketName"))

GetCheck(t) ==
    /\ At(t, "g_check")
    /\ ~WriteLocked
    /\ IF CacheGet(St(NoFault), loc[t].name).some
       THEN Return(t, Ok(CacheGet(St(NoFault), loc[t].name).v))
       ELSE Goto(t, "g_probe")
    /\ UNCHANGED <<files, dirs, cache, now, last, stored, created>>

GetProbe(t) ==
    /\ At(t, "g_probe")
    /\ \E r \in {load_bucket_from_backend(St(NoFault), loc[t].name)} :
           /\ Commit(r)
           /\ IF ~r.res.ok THEN EnterCreate(t)
              ELSE IF r.res.val.some
              THEN /\ pc' = [pc EXCEPT ![t] = "g_insert"]
                   /\ loc' = [loc EXCEPT ![t].found = {r.res.val.v}]
              ELSE Goto(t, "g_refresh")
    /\ UNCHANGED <<now, last, stored, created>>

GetInsert(t) ==
    /\ At(t, "g_insert")
    /\ ~WriteLocked
    /\ \E bucket \in loc[t].found :
           /\ Commit([st |-> CacheInsert(St(NoFault), bucket)])
           /\ Return(t, Ok(bucket))
    /\ UNCHANGED <<now, last, stored, created>>

\* refresh_cache, first half: the catalog is listed and read
GetRefresh(t) ==
    /\ At(t, "g_refresh")
    /\ \E r \in {load_buckets_from_backend(St(NoFault))} :
           /\ Commit(r)
           /\ IF ~r.res.ok THEN EnterCreate(t)
              ELSE /\ pc' = [pc EXCEPT ![t] = "g_update"]
                   /\ loc' = [loc EXCEPT ![t].found = r.res.val]
    /\ UNCHANGED <<now, last, stored, created>>

\* refresh_cache, second half: the cache is replaced by what was read
GetUpdate(t) ==
    /\ At(t, "g_update")
    /\ ~WriteLocked
    /\ Commit([st |-> CacheUpdate(St(NoFault), loc[t].found, now)])
    /\ Goto(t, "g_reread")
    /\ UNCHANGED <<now, last, stored, created>>

GetReread(t) ==
    /\ At(t, "g_reread")
    /\ ~WriteLocked
    /\ IF CacheGet(St(NoFault), loc[t].name).some
       THEN Return(t, Ok(CacheGet(St(NoFault), loc[t].name).v))
       ELSE EnterCreate(t)
    /\ UNCHANGED <<files, dirs, cache, now, last, stored, created>>

\* Service::create_bucket after MetadataStore::create_bucket: the marker is put
Marker(t) ==
    /\ At(t, "marker")
    /\ \E m \in {local_put_object(St(NoFault), bucket_marker(loc[t].name), Raw(<<>>),
                                  "None", {}, now)} :
           /\ Commit(m)
           /\ Return(t, IF m.res.ok THEN Ok(loc[t].bucket) ELSE BackendErr(m.res.err))
    /\ UNCHANGED <<now, last, stored, created>>

NextUpsert ==
    \/ \E t \in 1..MaxUpsertTasks, name \in RaceNames : BeginUpsert(t, name)
    \/ \E t \in Tasks : GetCheck(t)
    \/ \E t \in Tasks : GetProbe(t)
    \/ \E t \in Tasks : GetInsert(t)
    \/ \E t \in Tasks : GetRefresh(t)
    \/ \E t \in Tasks : GetUpdate(t)
    \/ \E t \in Tasks : GetReread(t)
    \/ \E t \in Tasks : CheckCache(t)
    \/ \E t \in Tasks : Probe(t)
    \/ \E t \in Tasks : LockCache(t)
    \/ \E t \in Tasks : Reprobe(t)
    \/ \E t \in Tasks : Save(t)
    \/ \E t \in Tasks : Insert(t)
    \/ \E t \in Tasks : Marker(t)

SpecUpsert == Init /\ [][NextUpsert]_vars

\* C12: under any interleaving of concurrent upsert_bucket(N) calls on a valid
\* name N, with no backend failure, every call returns a Bucket and none fails
\* with BucketAlreadyExists.
C12_ConcurrentUpsertsAllSucceed ==
    \A t \in DOMAIN pc :
        (pc[t] = "done" /\ loc[t].kind = "upsert" /\ is_valid_bucket_name(loc[t].name))
        => loc[t].res.ok

-----------------------------------------------------------------------------
(* Two buckets side by side: requests on one bucket and what the other shows   *)

IsolationNames == {ValidName, SecondName}

\* a key whose first segment is the other bucket's name
KeyCross == SecondName \o Slash \o KeyFT
IsolationKeys == {KeyFT, KeyCross}
IsolationPrefixes == {NoPrefix, <<"f">>, SecondName \o Slash}

NextIsolation ==
    \/ \E name \in IsolationNames : CreateBucket(name, NoFault)
    \/ \E bucket \in IsolationNames, key \in IsolationKeys, body \in Bodies :
           PutObject(bucket, key, body, TextPlain)
    \/ \E bucket \in IsolationNames, key \in IsolationKeys : GetObject(bucket, key)
    \/ \E bucket \in IsolationNames, key \in IsolationKeys : DeleteObject(bucket, key)
    \/ \E bucket \in IsolationNames, prefix \in IsolationPrefixes :
           ListObjects(bucket, prefix)

SpecIsolation == Init /\ [][NextIsolation]_vars

\* what get_object, head_object, object_exists and list_objects return on a bucket
\* in the backend and cache state (f, d, c), for every key and prefix
ViewOf(f, d, c, bucket) ==
    LET st == [files |-> f, dirs |-> d, cache |-> c, log |-> <<>>, fault |-> NoFault]
    IN  [get    |-> [k \in IsolationKeys |-> svc_get_object(st, bucket, k, now).res],
         head   |-> [k \in IsolationKeys |-> svc_head_object(st, bucket, k, now).res],
         exists |-> [k \in IsolationKeys |-> svc_object_exists(st, bucket, k, now).res],
         list   |-> [p \in IsolationPrefixes |->
                        svc_list_objects(st, bucket, p, now).res]]

\* the metadata that the view of a bucket returns
MetadataIn(view) ==
    {view.get[k].val.metadata : k \in {x \in IsolationKeys : view.get[x].ok}}
    \cup {view.head[k].val : k \in {x \in IsolationKeys : view.head[x].ok}}
    \cup UNION {{view.list[p].val[q] : q \in DOMAIN view.list[p].val} :
                  p \in {x \in IsolationPrefixes : view.list[x].ok}}

\* the metadata of the objects put under a bucket and not deleted since, under the
\* key the backend stores and under the key list_objects returns
PutUnder(bucket) ==
    UNION {{stored[x].metadata,
            [stored[x].metadata EXCEPT !.key = StripPrefix(@, bucket \o Slash)]} :
             x \in {y \in DOMAIN stored : y[1] = bucket}}

\* C13: for two distinct existing buckets, what get_object, head_object,
\* object_exists and list_objects return on one bucket is made only of objects
\* put under that bucket, and no put or delete on the other bucket changes it.
C13_BucketsAreIsolated ==
    [][last'.op \in {"put_object", "delete_object"}
       => \A b2 \in IsolationNames \ {last'.bucket} :
            LET after == ViewOf(files', dirs', cache', b2)
            IN  /\ MetadataIn(after) \subseteq PutUnder(b2)'
                /\ after = ViewOf(files, dirs, cache, b2)]_vars

\* a put under one bucket succeeded while the other bucket holds an object under
\* the same key with another body, and get_object on the other bucket returns it
C13_Witness ==
    /\ last.op = "put_object" /\ last.res.ok /\ last.bucket = ValidName
    /\ last.key = KeyFT
    /\ <<SecondName, KeyFT>> \in DOMAIN stored
    /\ stored[<<SecondName, KeyFT>>].body # last.arg
    /\ ViewOf(files, dirs, cache, SecondName).get[KeyFT].ok
    /\ ViewOf(files, dirs, cache, SecondName).get[KeyFT].val.stream
           = stored[<<SecondName, KeyFT>>].body

-----------------------------------------------------------------------------
(* Claims about deleted objects *)

NotFoundErr == BackendErr("NotFound")

\* in the backend and cache state (f, d, c): get_object and head_object on
\* (bucket, key) fail with NotFound, object_exists returns false and list_objects
\* on the bucket does not return the key
Gone(f, d, c, bucket, key) ==
    LET st == [files |-> f, dirs |-> d, cache |-> c, log |-> <<>>, fault |-> NoFault]
        listed == svc_list_objects(st, bucket, NoPrefix, now).res
    IN  /\ svc_get_object(st, bucket, key, now).res = NotFoundErr
        /\ svc_head_object(st, bucket, key, now).res = NotFoundErr
        /\ svc_object_exists(st, bucket, key, now).res = Ok(FALSE)
        /\ listed.ok /\ key \notin ListedKeys(listed.val)

\* C14: after delete_object(B, K) succeeded, and after one more request that is not
\* a put_object(B, K) and leaves bucket B in place, get_object(B, K) and
\* head_object(B, K) fail with NotFound, object_exists(B, K) returns false and K is
\* absent from list_objects(B).
C14_DeletedObjectStaysGone ==
    [][(last.op = "delete_object" /\ last.res.ok)
       => /\ Gone(files, dirs, cache, last.bucket, last.key)
          /\ (/\ ~(last'.op = "put_object" /\ last'.bucket = last.bucket
                                             /\ last'.key = last.key)
              /\ HasCatalogRecord(last.bucket)')
             => Gone(files', dirs', cache', last.bucket, last.key)]_vars

-----------------------------------------------------------------------------
(* One gateway's cached view of the catalog while a peer gateway on the same   *)
(* backend creates and deletes buckets, over more than one cache lifetime      *)

MaxClock == 61

CacheNames == {ValidName, SecondName}
BucketIds == {generate_bucket_id(n) : n \in CacheNames}

\* time passes: up to the cache's lifetime, or just beyond it
Elapse(d) ==
    /\ now + d <= MaxClock
    /\ now' = now + d
    /\ last' = [op |-> "tick", bucket |-> <<>>, key |-> <<>>, arg |-> NoArg,
                res |-> Ok(Unit), log |-> <<>>, fault |-> NoFault]
    /\ UNCHANGED <<files, dirs, cache, stored, created, pc, loc>>

\* the cache of another gateway process, just refreshed from an empty catalog
PeerSt == [St(NoFault) EXCEPT !.cache = [buckets |-> <<>>, last_refresh |-> now]]

\* a peer gateway on the same backend runs Service::create_bucket
PeerCreateBucket(name) ==
    \E r \in {svc_create_bucket(PeerSt, name, now)} :
        /\ r.res.ok
        /\ files' = r.st.files
        /\ dirs' = r.st.dirs
        /\ Done("peer.create_bucket", name, <<>>, NoArg, r)
        /\ UNCHANGED <<cache, now, stored, created, pc, loc>>

\* a peer gateway on the same backend runs Service::delete_bucket
PeerDeleteBucket(name) ==
    \E r \in {svc_delete_bucket(PeerSt, name, now)} :
        /\ r.res.ok
        /\ files' = r.st.files
        /\ dirs' = r.st.dirs
        /\ Done("peer.delete_bucket", name, <<>>, NoArg, r)
        /\ UNCHANGED <<cache, now, stored, created, pc, loc>>

GetBucket(name) ==
    \E r \in {meta_get_bucket(St(NoFault), name, now)} :
        /\ Commit(r)
        /\ Done("get_bucket", name, <<>>, NoArg, r)
        /\ UNCHANGED <<now, stored, created, pc, loc>>

GetBucketById(id) ==
    \E r \in {meta_get_bucket_by_id(St(NoFault), id, now)} :
        /\ Commit(r)
        /\ Done("get_bucket_by_id", <<>>, id, NoArg, r)
        /\ UNCHANGED <<now, stored, created, pc, loc>>

ListBuckets ==
    \E r \in {meta_list_buckets(St(NoFault), now)} :
        /\ Commit(r)
        /\ Done("list_buckets", <<>>, <<>>, NoArg, r)
        /\ UNCHANGED <<now, stored, created, pc, loc>>

NextCache ==
    \/ \E name \in CacheNames : CreateBucket(name, NoFault)
    \/ \E name \in CacheNames : PeerCreateBucket(name)
    \/ \E name \in CacheNames : PeerDeleteBucket(name)
    \/ \E name \in CacheNames : GetBucket(name)
    \/ \E id \in BucketIds : GetBucketById(id)
    \/ ListBuckets
    \/ \E d \in {CACHE_TTL_SECONDS, CACHE_TTL_SECONDS + 1} : Elapse(d)

SpecCache == Init /\ [][NextCache]_vars

\* the Bucket in the catalog record of name
CatalogRecord(name) == FromJson("Bucket", files[bucket_key(name)]).val

ProbeCall(name) == [op |-> "get_object", key |-> bucket_key(name)]
RefreshCall == [op |-> "list_objects", key |-> BUCKETS_PREFIX]

\* C15: get_bucket(N) returns the cached entry on a hit, without a backend call; on
\* a miss it probes .metadata/buckets/N.json and, the record being there, inserts
\* it in the cache and returns it; it returns BucketNotFound only after the probe
\* and a full refresh, when the backend holds no record of N. So a record written
\* by a peer gateway is found whatever the cache holds.
C15_NotFoundOnlyAfterBackendRecheck ==
    [][last'.op = "get_bucket"
       => LET name == last'.bucket
              calls == BackendCalls(last'.log)
          IN  IF name \in DOMAIN cache.buckets
              THEN /\ last'.res = Ok(cache.buckets[name])
                   /\ calls = <<>>
              ELSE IF HasCatalogRecord(name)
              THEN /\ last'.res = Ok(CatalogRecord(name))
                   /\ calls = <<ProbeCall(name)>>
                   /\ name \in DOMAIN cache'.buckets
                   /\ cache'.buckets[name] = CatalogRecord(name)
              ELSE /\ last'.res = SvcErr("BucketNotFound")
                   /\ Len(calls) >= 2
                   /\ calls[1] = ProbeCall(name)
                   /\ calls[2] = RefreshCall
                   /\ name \notin DOMAIN cache'.buckets]_vars

\* get_bucket found, by the backend probe, a bucket that a peer gateway created
\* after this gateway's cache was last refreshed
C15_Witness ==
    /\ last.op = "get_bucket" /\ last.res.ok
    /\ last.bucket \notin DOMAIN created
    /\ BackendCalls(last.log) = <<ProbeCall(last.bucket)>>
    /\ last.res.val.created_at > cache.last_refresh

CatalogReads == {"get_bucket", "get_bucket_by_id", "list_buckets"}

\* the bucket entries a catalog read returned
ReturnedEntries(l) ==
    IF ~l.res.ok THEN {}
    ELSE IF l.op = "list_buckets" THEN {l.res.val[i] : i \in DOMAIN l.res.val}
    ELSE {l.res.val}

\* C16: a read of the catalog through get_bucket, get_bucket_by_id or list_buckets
\* that starts with the cache expired (now - last_refresh > 60 s) refreshes the
\* cache from the backend before it uses a cached entry, so every bucket entry it
\* returns has its catalog record in the backend.
C16_ExpiredCacheIsRefreshedBeforeUse ==
    [][(last'.op \in CatalogReads /\ now - cache.last_refresh > CACHE_TTL_SECONDS)
       => /\ RefreshCall \in {last'.log[i] : i \in DOMAIN last'.log}
          /\ cache'.last_refresh = now
          /\ \A b \in ReturnedEntries(last') : HasCatalogRecord(b.name)]_vars

-----------------------------------------------------------------------------
(* Concurrent try_acquire_lock calls: the read of the lock record and the write *)
(* of the new one are two backend calls, and other calls run between them       *)

MaxLockTasks == 2

OwnerOf(t) == "worker-" \o ToString(t)

\* the calls on a resource that have started and not returned
InFlight(resource) ==
    {u \in DOMAIN pc : pc[u] # "done" /\ loc[u].resource = resource}

\* the backend holds a lock record for the resource that reads and has not expired
HeldAt(resource, t) ==
    Let(local_get_object(St(NoFault), lock_key(resource)), LAMBDA g :
        /\ g.res.ok
        /\ ReadLock(g).ok
        /\ ReadLock(g).val.expires_at > t)

\* try_acquire_lock starts: now is read once. The call joins the calls on the
\* resource that are in flight (its batch); a batch is free when its first call
\* started with no unexpired lock on the resource
BeginAcquire(t, resource, ttl_seconds) ==
    /\ t \notin DOMAIN pc
    /\ t = Cardinality(DOMAIN pc) + 1
    /\ pc' = [u \in DOMAIN pc \cup {t} |-> IF u # t THEN pc[u] ELSE "l_read"]
    /\ loc' = [u \in DOMAIN loc \cup {t} |->
                IF u # t THEN loc[u]
                ELSE [kind |-> "try_acquire_lock", resource |-> resource,
                      owner |-> OwnerOf(t), ttl_seconds |-> ttl_seconds, at |-> now,
                      batch |-> IF InFlight(resource) = {} THEN t
                                ELSE loc[CHOOSE v \in InFlight(resource) : TRUE].batch,
                      free |-> IF InFlight(resource) = {} THEN ~HeldAt(resource, now)
                               ELSE loc[CHOOSE v \in InFlight(resource) : TRUE].free,
                      res |-> Pending]]
    /\ UNCHANGED <<files, dirs, cache, now, last, stored, created>>

\* the read step, were it to refuse whenever a record exists, expired or not
LockReadRefusesExpired(t) ==
    /\ At(t, "l_read")
    /\ \E g \in {local_get_object(St(NoFault), lock_key(loc[t].resource))} :
           IF g.res.ok THEN Return(t, Ok(FALSE))
           ELSE IF g.res.err = "NotFound" THEN Goto(t, "l_write")
           ELSE Return(t, BackendErr(g.res.err))
    /\ UNCHANGED <<files, dirs, cache, now, last, stored, created>>

\* the get_object of the lock record and the decision on it
LockRead(t) ==
    /\ At(t, "l_read")
    /\ \E g \in {local_get_object(St(NoFault), lock_key(loc[t].resource))} :
           IF g.res.ok
           THEN IF ~ReadLock(g).ok THEN Return(t, ReadLock(g))
                ELSE IF ReadLock(g).val.expires_at > loc[t].at
                THEN Return(t, Ok(FALSE))
                ELSE Goto(t, "l_write")
           ELSE IF g.res.err = "NotFound" THEN Goto(t, "l_write")
           ELSE Return(t, BackendErr(g.res.err))
    /\ UNCHANGED <<files, dirs, cache, now, last, stored, created>>

\* the put_object of the new lock record
LockWrite(t) ==
    /\ At(t, "l_write")
    /\ \E w \in {WriteLock(St(NoFault), loc[t].resource, loc[t].owner,
                           loc[t].ttl_seconds, loc[t].at)} :
           /\ Commit(w)
           /\ Return(t, w.res)
    /\ UNCHANGED <<now, last, stored, created>>

NextAcquire ==
    \/ \E t \in 1..MaxLockTasks, resource \in Resources, ttl_seconds \in Ttls :
           BeginAcquire(t, resource, ttl_seconds)
    \/ \E t \in 1..MaxLockTasks : LockRead(t)
    \/ \E t \in 1..MaxLockTasks : LockWrite(t)
    \/ Tick

SpecAcquire == Init /\ [][NextAcquire]_vars

\* the calls of one batch
Batch(b) == {t \in DOMAIN pc : loc[t].batch = b}

\* C17: when try_acquire_lock calls by distinct owners run concurrently on a
\* resource that had no unexpired lock when the first of them started, and no
\* backend call fails, then once all of them have returned at least one of them
\* has returned true.
C17_SomeAcquirerWins ==
    \A b \in {loc[t].batch : t \in DOMAIN pc} :
        (/\ \A t \in Batch(b) : pc[t] = "done" /\ loc[t].free
         /\ Cardinality({loc[t].owner : t \in Batch(b)}) = Cardinality(Batch(b)))
        => \E t \in Batch(b) : loc[t].res = Ok(TRUE)

\* two calls of one free batch have returned, one true and one false
C17_Witness ==
    \E t, u \in DOMAIN pc :
        /\ t # u /\ loc[t].batch = loc[u].batch /\ loc[t].free
        /\ \A v \in Batch(loc[t].batch) : pc[v] = "done"
        /\ loc[t].res = Ok(TRUE) /\ loc[u].res = Ok(FALSE)

\* the lock record of the resource in the backend
StoredLock(f, resource) == FromJson("Lock", f[lock_key(resource)]).val

\* C18: the advisory lock gives no mutual exclusion. A call that read the lock as
\* absent or expired writes its record and returns true without reading again,
\* whatever another owner wrote in between; so of two calls by different owners
\* that both read before either wrote, both return true and both believe they
\* hold the lock before either TTL has elapsed.
C18_WriteAfterReadAlwaysWins ==
    [][\A t \in DOMAIN pc :
          (pc[t] = "l_write" /\ pc'[t] = "done")
          => /\ loc'[t].res = Ok(TRUE)
             /\ StoredLock(files', loc[t].resource).owner = loc[t].owner]_vars

\* two owners have both been told true for one resource, and neither TTL has elapsed
C18_Witness ==
    \E t, u \in DOMAIN pc :
        /\ loc[t].owner # loc[u].owner /\ loc[t].resource = loc[u].resource
        /\ pc[t] = "done" /\ loc[t].res = Ok(TRUE)
        /\ pc[u] = "done" /\ loc[u].res = Ok(TRUE)
        /\ now < loc[t].at + loc[t].ttl_seconds
        /\ now < loc[u].at + loc[u].ttl_seconds

-----------------------------------------------------------------------------
(* Claims about the catalog after concurrent create_bucket calls *)

\* every call that started has returned
Quiescent == \A t \in DOMAIN pc : pc[t] = "done"

\* C19: once concurrent create_bucket(N) calls on a valid name N have all returned,
\* whatever their interleaving, the backend holds exactly one catalog record for N,
\* at .metadata/buckets/N.json, with name N and id generate_bucket_id(N).
C19_OneCatalogRecordAfterRace ==
    \A name \in {n \in RaceNames : is_valid_bucket_name(n)} :
        (Quiescent /\ Returned(name) # {})
        => /\ CatalogRecordsOf(files, name) = {bucket_key(name)}
           /\ FromJson("Bucket", files[bucket_key(name)]).ok
           /\ CatalogRecord(name).name = name
           /\ CatalogRecord(name).id = generate_bucket_id(name)

\* two create_bucket calls on one name both wrote the record and both returned Ok
C19_Witness ==
    /\ Quiescent
    /\ Cardinality({t \in Returned(ValidName) : loc[t].res.ok}) >= 2
    /\ CatalogRecordsOf(files, ValidName) = {bucket_key(ValidName)}

-----------------------------------------------------------------------------
(* Concurrent Service::create_bucket calls on distinct new names, then          *)
(* list_buckets and further create_bucket calls once all have returned. The     *)
(* probe of a new name finds no record, so no call gets to the write lock and   *)
(* the second probe; the claim's formula checks that none does.                 *)

TaskNames == {loc[t].name : t \in DOMAIN pc}

BeginCreate(t, name) ==
    /\ name \notin TaskNames
    /\ Start(t, "service", name,
             IF is_valid_bucket_name(name) THEN "check" ELSE "done")

\* a read or a further create_bucket after all concurrent calls have returned
Afterwards == DOMAIN pc # {} /\ Quiescent

NextCreate ==
    \/ \E t \in Tasks, name \in CacheNames : BeginCreate(t, name)
    \/ \E t \in Tasks : CheckCache(t)
    \/ \E t \in Tasks : Probe(t)
    \/ \E t \in Tasks : Save(t)
    \/ \E t \in Tasks : Insert(t)
    \/ \E t \in Tasks : Marker(t)
    \/ Afterwards /\ ListBuckets
    \/ \E name \in TaskNames : Afterwards /\ CreateBucket(name, NoFault)
    \/ Elapse(CACHE_TTL_SECONDS + 1)

SpecCreate == Init /\ [][NextCreate]_vars

\* C20: concurrent Service::create_bucket calls on pairwise distinct valid new names
\* all succeed under every interleaving; afterwards list_buckets returns exactly
\* those names, and a further create_bucket on any of them fails with
\* BucketAlreadyExists.
C20_DistinctCreatesAllSucceed ==
    [][/\ \A t \in DOMAIN pc' :
             /\ pc'[t] \notin {"lock", "reprobe"}
             /\ pc'[t] = "done" => /\ loc'[t].res.ok
                                   /\ loc'[t].res.val.name = loc'[t].name
       /\ (pc' = pc /\ last'.op = "list_buckets")
          => /\ last'.res.ok
             /\ {last'.res.val[i].name : i \in DOMAIN last'.res.val} = TaskNames
             /\ Len(last'.res.val) = Cardinality(TaskNames)
       /\ (pc' = pc /\ last'.op = "create_bucket")
          => last'.res = SvcErr("BucketAlreadyExists")]_vars

\* two concurrent calls on two names both returned Ok, the cache expired, and
\* list_buckets returned the two names
C20_Witness ==
    /\ Cardinality(TaskNames) = 2 /\ Quiescent
    /\ \A t \in DOMAIN pc : loc[t].res.ok
    /\ last.op = "list_buckets" /\ Len(last.res.val) = 2
    /\ RefreshCall \in {last.log[i] : i \in DOMAIN last.log}

-----------------------------------------------------------------------------
(* The Local backend called directly, with keys no Service check has seen      *)

KeyParent == <<".", ".", "/", "e">>
KeyRoot == <<"/", "e">>
KeyInner == <<"d", "/", ".", ".", "/", "e">>
TraversalKeys == {KeyParent, KeyRoot, KeyInner}
LocalKeys == {KeyFT, KeyFD} \cup TraversalKeys

\* the first backend call of the request fails, at one of the three points
FirstCallFaults == {NoFault} \cup [at : {1}, kind : {"early", "mid", "late"}]

LocalPutObject(key, body, fault) ==
    \E r \in {local_put_object(St(fault), key, body, TextPlain, {}, now)} :
        /\ Commit(r)
        /\ Done("put_object", <<>>, key, body, r)
        /\ UNCHANGED <<now, stored, created, pc, loc>>

LocalGetObject(key) ==
    \E r \in {local_get_object(St(NoFault), key)} :
        /\ Commit(r)
        /\ Done("get_object", <<>>, key, NoArg, r)
        /\ UNCHANGED <<now, stored, created, pc, loc>>

LocalHeadObject(key) ==
    \E r \in {local_head_object(St(NoFault), key)} :
        /\ Commit(r)
        /\ Done("head_object", <<>>, key, NoArg, r)
        /\ UNCHANGED <<now, stored, created, pc, loc>>

LocalDeleteObject(key, fault) ==
    \E r \in {local_delete_object(St(fault), key)} :
        /\ Commit(r)
        /\ Done("delete_object", <<>>, key, NoArg, r)
        /\ UNCHANGED <<now, stored, created, pc, loc>>

LocalObjectExists(key) ==
    \E r \in {local_object_exists(St(NoFault), key)} :
        /\ Commit(r)
        /\ Done("object_exists", <<>>, key, NoArg, r)
        /\ UNCHANGED <<now, stored, created, pc, loc>>

LocalGetPublicUrl(key) ==
    \E r \in {local_get_public_url(St(NoFault), key)} :
        /\ Commit(r)
        /\ Done("get_public_url", <<>>, key, NoArg, r)
        /\ UNCHANGED <<now, stored, created, pc, loc>>

NextLocal ==
    \/ \E key \in LocalKeys, body \in Bodies, fault \in FirstCallFaults :
           LocalPutObject(key, body, fault)
    \/ \E key \in LocalKeys : LocalGetObject(key)
    \/ \E key \in LocalKeys : LocalHeadObject(key)
    \/ \E key \in LocalKeys, fault \in FirstCallFaults : LocalDeleteObject(key, fault)
    \/ \E key \in LocalKeys : LocalObjectExists(key)
    \/ \E key \in LocalKeys : LocalGetPublicUrl(key)

SpecLocal == Init /\ [][NextLocal]_vars

\* the key contains ".." or starts with "/"
Traverses(key) == Contains(key, DotDot) \/ StartsWith(key, Slash)

PathOps == {"put_object", "get_object", "head_object", "delete_object", "object_exists"}

\* C21 as stated: every Local backend operation with a key that contains ".." or
\* starts with "/" fails with InvalidPath and creates, changes or removes no file
\* and no directory.
C21_TraversalKeyFailsInvalidPath ==
    [][(last'.op \in PathOps \cup {"get_public_url"} /\ Traverses(last'.key))
       => /\ last'.res = Err("InvalidPath")
          /\ files' = files /\ dirs' = dirs]_vars

\* C21, amended: put_object, get_object, head_object, delete_object and
\* object_exists with a key that contains ".." or starts with "/" fail with
\* InvalidPath, whatever fault is due, and get_public_url fails with Provider as
\* it does for every key; none creates, changes or removes a file or directory.
C21_TraversalKeyTouchesNothing ==
    [][(last'.op \in PathOps \cup {"get_public_url"} /\ Traverses(last'.key))
       => /\ last'.res = IF last'.op \in PathOps THEN Err("InvalidPath")
                         ELSE Err("Provider")
          /\ files' = files /\ dirs' = dirs]_vars

\* a put with a traversal key was refused while the backend holds objects
C21_Witness ==
    /\ last.op = "put_object" /\ last.key = KeyParent
    /\ last.res = Err("InvalidPath")
    /\ KeyFT \in DOMAIN files

-----------------------------------------------------------------------------
(* The HTTP response to a failed request: impl IntoResponse for ServiceError    *)

ServiceErrorKinds ==
    {"BucketNotFound", "BucketAlreadyExists", "ObjectNotFound", "InvalidBucketName",
     "InvalidObjectKey", "Database", "Configuration", "Internal", "LockAcquisition"}
BackendErrorKinds ==
    {"NotFound", "Io", "Provider", "Serialization", "InvalidPath", "Configuration",
     "Internal"}

\* every ServiceError value, as SvcErr and BackendErr carry it
ServiceErrors ==
    [kind : ServiceErrorKinds, inner : {"-"}]
    \cup [kind : {"Backend"}, inner : BackendErrorKinds]

\* a response that answers 500 to every backend error
status_backend_always_500(e) ==
    IF e.kind \in {"BucketNotFound", "ObjectNotFound"} THEN 404
    ELSE IF e.kind = "BucketAlreadyExists" THEN 409
    ELSE IF e.kind \in {"InvalidBucketName", "InvalidObjectKey"} THEN 400
    ELSE 500

\* the status code of into_response, arm by arm of its match
status(e) ==
    IF e.kind \in {"BucketNotFound", "ObjectNotFound"} THEN 404
    ELSE IF e.kind = "BucketAlreadyExists" THEN 409
    ELSE IF e.kind \in {"InvalidBucketName", "InvalidObjectKey"} THEN 400
    ELSE IF e.kind = "Backend"
    THEN IF e.inner = "NotFound" THEN 404 ELSE 500
    ELSE 500

\* the handler returns Err(e) and axum turns it into the response: e is the error
\* of the request just run, or any ServiceError value
IntoResponse(e) ==
    /\ last.op # "into_response"
    /\ last' = [op |-> "into_response", bucket |-> last.bucket, key |-> last.key,
                arg |-> status(e), res |-> Err(e), log |-> <<>>, fault |-> NoFault]
    /\ UNCHANGED <<files, dirs, cache, now, stored, created, pc, loc>>

NextHttp ==
    \/ \E fault \in Faults : CreateBucket(ValidName, fault)
    \/ \E fault \in Faults : DeleteBucket(ValidName, fault)
    \/ \E e \in ServiceErrors \cup (IF last.res.ok THEN {} ELSE {last.res.err}) :
           IntoResponse(e)

SpecHttp == Init /\ [][NextHttp]_vars

\* C22: the status of the response to an error is fixed by its kind, for every
\* kind: 404 for BucketNotFound, ObjectNotFound and a backend NotFound; 409 for
\* BucketAlreadyExists; 400 for InvalidBucketName and InvalidObjectKey; 500 for
\* every other kind and every other backend error.
C22_StatusByErrorKind ==
    [][last'.op = "into_response"
       => LET e == last'.res.err
              notfound == \/ e.kind \in {"BucketNotFound", "ObjectNotFound"}
                          \/ e.kind = "Backend" /\ e.inner = "NotFound"
          IN  /\ last'.arg = 404 <=> notfound
              /\ last'.arg = 409 <=> e.kind = "BucketAlreadyExists"
              /\ last'.arg = 400 <=> e.kind \in {"InvalidBucketName", "InvalidObjectKey"}
              /\ last'.arg = 500 <=>
                   /\ ~notfound
                   /\ e.kind \notin {"BucketAlreadyExists", "InvalidBucketName",
                                     "InvalidObjectKey"}]_vars

\* a create_bucket that found the bucket in place was answered 409
C22_Witness ==
    /\ last.op = "into_response" /\ last.bucket = ValidName
    /\ last.res = SvcErr("BucketAlreadyExists") /\ last.arg = 409
    /\ HasCatalogRecord(ValidName)

-----------------------------------------------------------------------------
(* list_buckets between create_bucket and delete_bucket calls run one after     *)
(* another, while time passes and the cache expires                             *)

NextList ==
    \/ \E name \in CacheNames : CreateBucket(name, NoFault)
    \/ \E name \in CacheNames : DeleteBucket(name, NoFault)
    \/ ListBuckets
    \/ Tick
    \/ Elapse(CACHE_TTL_SECONDS + 1)

SpecList == Init /\ [][NextList]_vars

\* C23: list_buckets returns every bucket of the freshened cache exactly once,
\* newest first by created_at; with operations run one after another these are the
\* buckets created with success and not deleted with success since.
C23_ListBucketsSortedAndComplete ==
    [][last'.op = "list_buckets"
       => LET listed == last'.res.val
          IN  /\ last'.res.ok
              /\ {listed[i] : i \in DOMAIN listed}
                   = {cache'.buckets[n] : n \in DOMAIN cache'.buckets}
              /\ Len(listed) = Cardinality(DOMAIN cache'.buckets)
              /\ \A i, j \in DOMAIN listed :
                    i < j => listed[i].created_at >= listed[j].created_at
              /\ now - cache.last_refresh > CACHE_TTL_SECONDS
                    => cache'.last_refresh = now
              /\ {listed[i].name : i \in DOMAIN listed} = DOMAIN created
              /\ \A i \in DOMAIN listed : listed[i] = created[listed[i].name]]_vars

\* list_buckets refreshed the expired cache and returned two buckets created at
\* different times, newest first
C23_Witness ==
    /\ last.op = "list_buckets" /\ last.res.ok
    /\ Len(last.res.val) = 2
    /\ last.res.val[1].created_at > last.res.val[2].created_at
    /\ RefreshCall \in {last.log[i] : i \in DOMAIN last.log}

-----------------------------------------------------------------------------
(* create_bucket on every short name over a small alphabet, and on names at the *)
(* upper length limit; once a bucket exists only its own name is tried again    *)

NextName ==
    \E name \in AnyNames : DOMAIN created \subseteq {name} /\ CreateBucket(name, NoFault)

SpecName == Init /\ [][NextName]_vars

\* the name rule in words: 3 to 63 characters, the first and the last an ASCII
\* lowercase letter or a digit, every one an ASCII lowercase letter, a digit or '-'
NameRule(name) ==
    /\ Len(name) \in 3..63
    /\ name[1] \in Lower \cup Digit
    /\ name[Len(name)] \in Lower \cup Digit
    /\ \A i \in DOMAIN name : name[i] \in Lower \cup Digit \cup {"-"}

\* C24: is_valid_bucket_name(s) is true iff s has 3 to 63 characters, begins and
\* ends with an ASCII lowercase letter or digit and holds only such characters and
\* '-'; create_bucket on any other name fails with InvalidBucketName with no
\* backend call and no change of cache or backend, and on no name that meets the
\* rule does it fail with InvalidBucketName.
C24_BucketNameRule ==
    [][last'.op = "create_bucket"
       => /\ is_valid_bucket_name(last'.bucket) <=> NameRule(last'.bucket)
          /\ IF NameRule(last'.bucket)
             THEN last'.res # SvcErr("InvalidBucketName")
             ELSE /\ last'.res = SvcErr("InvalidBucketName")
                  /\ last'.log = <<>>
                  /\ files' = files /\ dirs' = dirs /\ cache' = cache]_vars

\* create_bucket refused a name of three bytes that has only two characters
C24_Witness ==
    /\ last.op = "create_bucket" /\ last.res = SvcErr("InvalidBucketName")
    /\ Len(last.bucket) = 2 /\ Utf8Len(last.bucket) = 3
    /\ last.bucket[1] = "a"

-----------------------------------------------------------------------------
(* validate_object_key on every short key over '.', '/' and a letter, and on   *)
(* keys around the reserved name; alone and through get_object on a bucket     *)

MaxKeyLen == 4

KeyChars == {".", "/", "a"}

ShortKeys == UNION {[1..k -> KeyChars] : k \in 0..MaxKeyLen}

MarkerLikeKeys == {BucketMarkerName, SubSeq(BucketMarkerName, 1, 6),
                   BucketMarkerName \o <<"t">>, BucketMarkerName \o Slash,
                   <<"a">> \o BucketMarkerName, KeySubMarker}

AnyKeys == ShortKeys \cup MarkerLikeKeys

ValidateObjectKey(key) ==
    /\ last' = [op |-> "validate_object_key", bucket |-> <<>>, key |-> key,
                arg |-> NoArg, res |-> validate_object_key(key), log |-> <<>>,
                fault |-> NoFault]
    /\ UNCHANGED <<files, dirs, cache, now, stored, created, pc, loc>>

NextKey ==
    \/ \E key \in AnyKeys : ValidateObjectKey(key)
    \/ DOMAIN created = {} /\ CreateBucket(ValidName, NoFault)
    \/ \E key \in AnyKeys : GetObject(ValidName, key)

SpecKey == Init /\ [][NextKey]_vars

KeyRefused(key) ==
    \/ key = <<>>
    \/ \E i \in 1..(Len(key) - 1) : key[i] = "." /\ key[i + 1] = "."
    \/ key # <<>> /\ key[1] = "/"
    \/ key = <<".", "b", "u", "c", "k", "e", "t">>

\* C25: validate_object_key(k) fails with InvalidObjectKey iff k is empty,
\* contains "..", starts with "/" or equals ".bucket", and succeeds on every other
\* key; get_object on an existing bucket fails with InvalidObjectKey for exactly
\* the same keys.
C25_ObjectKeyRule ==
    [][/\ last'.op = "validate_object_key"
          => last'.res = IF KeyRefused(last'.key)
                         THEN SvcErr("InvalidObjectKey") ELSE Ok(Unit)
       /\ (last'.op = "get_object" /\ ValidName \in DOMAIN created)
          => (last'.res = SvcErr("InvalidObjectKey") <=> KeyRefused(last'.key))]_vars

\* validate_object_key refused a key with ".." in the middle and get_object on
\* the created bucket can follow
C25_Witness ==
    /\ last.op = "validate_object_key"
    /\ last.key = <<"a", ".", ".", "a">>
    /\ last.res = SvcErr("InvalidObjectKey")
    /\ ValidName \in DOMAIN created

-----------------------------------------------------------------------------
(* The bucket id over the lifecycle: create, delete and re-create, upsert and  *)
(* get_bucket_by_id on two names, with the clock and with restarts             *)

IdNames == {ValidName, SecondName}

UnknownId == BucketIdPrefix \o Hex16(<<0, 0, 0, 0>>)

NextId ==
    \/ \E name \in IdNames : CreateBucket(name, NoFault)
    \/ \E name \in IdNames : DeleteBucket(name, NoFault)
    \/ \E name \in IdNames : UpsertBucket(name, NoFault)
    \/ \E id \in {generate_bucket_id(n) : n \in IdNames} \cup {UnknownId} : GetBucketById(id)
    \/ Restart
    \/ Tick

SpecId == Init /\ [][NextId]_vars

\* the ids a build of the gateway gives the two names
IdOfValidName ==
    <<"b", "u", "c", "k", "e", "t", "-", "e", "f", "0", "9", "e", "0", "f", "4", "8", "9", "5", "a", "2", "5", "1", "d">>

IdOfSecondName ==
    <<"b", "u", "c", "k", "e", "t", "-", "e", "7", "7", "9", "6", "a", "b", "5", "8", "0", "2", "3", "6", "f", "0", "d">>

ExpectedId(name) == IF name = ValidName THEN IdOfValidName ELSE IdOfSecondName

\* the valid names among the names the scenarios use
HashedNames == DOMAIN BucketIdOf

\* C26: every Bucket that create_bucket or upsert_bucket returns for a name, and
\* every catalog record and cache entry of the name, carries one and the same id
\* at all times, also after delete and re-create and after a restart; distinct
\* names of the test set have distinct ids; get_bucket_by_id with the id of a
\* bucket that was created and not deleted returns that bucket.
C26_BucketIdIsFunctionOfName ==
    [][/\ (last'.op \in {"create_bucket", "upsert_bucket"} /\ last'.res.ok)
          => /\ last'.res.val.name = last'.bucket
             /\ last'.res.val.id = ExpectedId(last'.bucket)
       /\ \A n \in IdNames :
             /\ bucket_key(n) \in DOMAIN files'
                => FromJson("Bucket", files'[bucket_key(n)]).val.id = ExpectedId(n)
             /\ n \in DOMAIN cache'.buckets => cache'.buckets[n].id = ExpectedId(n)
       /\ \A n1, n2 \in HashedNames :
             n1 # n2 => generate_bucket_id(n1) # generate_bucket_id(n2)
       /\ \A n \in DOMAIN created :
             (last'.op = "get_bucket_by_id" /\ last'.key = generate_bucket_id(n))
             => (last'.res.ok /\ last'.res.val = created[n])]_vars

\* get_bucket_by_id found the first bucket by its id while both buckets exist
\* and the first was created later than the second
C26_Witness ==
    /\ last.op = "get_bucket_by_id" /\ last.res.ok
    /\ last.key = IdOfValidName
    /\ last.res.val.name = ValidName
    /\ IdNames \subseteq DOMAIN created
    /\ created[ValidName].created_at > created[SecondName].created_at

-----------------------------------------------------------------------------
(* Two keys that differ only in their extension, on the Local backend          *)

SiblingKeys == {KeyFT, KeyFD}

\* what get_object, head_object and list_objects say about one key
LocalViewOf(f, d, key) ==
    LET st == [files |-> f, dirs |-> d, cache |-> cache, log |-> <<>>, fault |-> NoFault]
        listing == local_list_objects(st, <<>>).res
    IN  [get  |-> local_get_object(st, key).res,
         head |-> local_head_object(st, key).res,
         list |-> IF listing.ok
                  THEN {listing.val[p] : p \in {q \in DOMAIN listing.val : q = key}}
                  ELSE {}]

\* C27: a put_object or delete_object on one key leaves what get_object,
\* head_object and list_objects return for every other key unchanged, and every
\* head_object that succeeds returns metadata whose key is the key asked for.
C27_SidecarPerKey ==
    [][/\ (last'.op \in {"put_object", "delete_object"} /\ last'.key \in SiblingKeys)
          => \A k2 \in SiblingKeys \ {last'.key} :
                LocalViewOf(files', dirs', k2) = LocalViewOf(files, dirs, k2)
       /\ (last'.op = "head_object" /\ last'.res.ok)
          => last'.res.val.key = last'.key]_vars

-----------------------------------------------------------------------------
(* put_object on the Local backend, interrupted or not, with the outcome of the *)
(* last put_object on each key on record                                       *)

KeyPlain == <<"g">>
InterruptKeys == {KeyFT, KeyPlain}

LocalPutRecorded(key, body, fault) ==
    \E r \in {local_put_object(St(fault), key, body, TextPlain, {}, now)} :
        /\ Commit(r)
        /\ Done("put_object", <<>>, key, body, r)
        /\ stored' = [x \in DOMAIN stored \cup {key} |->
                        IF x = key
                        THEN IF r.res.ok THEN "complete" ELSE "interrupted"
                        ELSE stored[x]]
        /\ UNCHANGED <<now, created, pc, loc>>

NextInterrupt ==
    \/ \E key \in InterruptKeys, body \in Bodies, fault \in FirstCallFaults :
           LocalPutRecorded(key, body, fault)
    \/ \E key \in InterruptKeys : LocalGetObject(key)
    \/ \E key \in InterruptKeys : LocalDeleteObject(key, NoFault)

SpecInterrupt == Init /\ [][NextInterrupt]_vars

\* C28: once a put_object on a key was interrupted before its metadata file was
\* written, the key has no metadata file and every get_object on it fails with
\* NotFound until a later put_object on the key completes, whether or not the
\* key held an object before.
C28_InterruptedPutHidesObject ==
    [][/\ (last'.op = "put_object" /\ ~last'.res.ok)
          => get_metadata_path(last'.key).val \notin DOMAIN files'
       /\ (last'.op = "get_object" /\ last'.key \in DOMAIN stored
              /\ stored[last'.key] = "interrupted")
          => last'.res = Err("NotFound")]_vars

-----------------------------------------------------------------------------
(* create_bucket that fails at its marker, and the retries, with restarts and *)
(* after the cache's lifetime                                                 *)

NextOrphan ==
    \/ \E name \in IdNames, fault \in Faults : CreateBucket(name, fault)
    \/ \E name \in IdNames : DeleteBucket(name, NoFault)
    \/ Restart
    \/ Elapse(CACHE_TTL_SECONDS + 1)

SpecOrphan == Init /\ [][NextOrphan]_vars

\* the request failed in the put_object of its bucket's marker
FailedAtMarker(l) ==
    /\ ~l.res.ok
    /\ l.fault # NoFault
    /\ BackendCalls(l.log)[l.fault.at] = [op |-> "put_object", key |-> bucket_marker(l.bucket)]

\* the catalog record and the cache entry of a bucket no create_bucket returned
Orphaned(f, c, name) ==
    /\ bucket_key(name) \in DOMAIN f
    /\ FromJson("Bucket", f[bucket_key(name)]).ok
    /\ FromJson("Bucket", f[bucket_key(name)]).val.name = name
    /\ name \in DOMAIN c.buckets
    /\ name \notin DOMAIN created

\* C29: a create_bucket that fails in the write of the marker leaves the catalog
\* record and the cache entry of the bucket in place, and from then on every
\* create_bucket on the name fails with BucketAlreadyExists, writes nothing and
\* makes no put_object.
C29_OrphanRecordBlocksRetry ==
    [][/\ (last'.op = "create_bucket" /\ FailedAtMarker(last'))
          => Orphaned(files', cache', last'.bucket)
       /\ (last'.op = "create_bucket" /\ Orphaned(files, cache, last'.bucket))
          => /\ last'.res = SvcErr("BucketAlreadyExists")
             /\ \A i \in DOMAIN last'.log : last'.log[i].op # "put_object"
             /\ files' = files /\ dirs' = dirs
             /\ Orphaned(files', cache', last'.bucket)]_vars

\* a retry after the cache's lifetime failed with BucketAlreadyExists while the
\* bucket has its catalog record and cache entry and no marker
C29_Witness ==
    /\ last.op = "create_bucket"
    /\ last.res = SvcErr("BucketAlreadyExists")
    /\ Orphaned(files, cache, ValidName)
    /\ bucket_marker(ValidName) \notin DOMAIN files
    /\ now > cache.last_refresh + CACHE_TTL_SECONDS

-----------------------------------------------------------------------------
(* The bucket-cache lock: create_bucket, get_bucket and get_bucket_by_id run   *)
(* as concurrent tasks, every read() and write() on the cache and every drop   *)
(* of a guard a step of its own. loc[t].guard is the guard task t holds.       *)

MaxGuardTasks == 2

GuardTasks == 1..MaxGuardTasks

Readers == {t \in DOMAIN loc : loc[t].guard = "read"}
Writers == {t \in DOMAIN loc : loc[t].guard = "write"}

\* the points at which a task waits in cache.read().await or cache.write().await,
\* and where it goes on with the guard
ReadRequests ==
    [c_read |-> "c_check", g_read |-> "g_check", g_read2 |-> "g_final",
     e_read |-> "e_check", i_read |-> "i_search", i_read2 |-> "i_final",
     ls_read |-> "ls_all"]

WriteRequests ==
    [c_write1 |-> "c_reprobe", c_write2 |-> "c_insert", g_write |-> "g_insert",
     r_write |-> "r_update", d_write |-> "d_remove"]

guard_kept_over_refresh == "read"

\* ensure_cache_fresh: drop(cache) before refresh_cache
guard_after_expiry_check == "none"

Call(t, kind, arg) ==
    /\ t \notin DOMAIN pc
    /\ t = Cardinality(DOMAIN pc) + 1
    /\ pc' = [u \in DOMAIN pc \cup {t} |->
                IF u # t THEN pc[u]
                ELSE IF kind \in {"get_bucket", "delete_bucket"} THEN "g_read"
                ELSE IF kind \in {"get_bucket_by_id", "list_buckets"} THEN "e_read"
                ELSE IF kind = "force_refresh" THEN "r_load"
                ELSE IF is_valid_bucket_name(arg) THEN "c_read" ELSE "done"]
    /\ loc' = [u \in DOMAIN loc \cup {t} |->
                IF u # t THEN loc[u]
                ELSE [kind |-> kind, name |-> arg,
                      bucket |-> IF kind = "create_bucket" /\ is_valid_bucket_name(arg)
                                 THEN NewBucket(arg, now) ELSE NoArg,
                      found |-> {}, guard |-> "none",
                      next |-> IF kind = "force_refresh" THEN "f_return" ELSE "done",
                      res |-> IF kind = "create_bucket" /\ ~is_valid_bucket_name(arg)
                              THEN SvcErr("InvalidBucketName") ELSE Pending]]
    /\ UNCHANGED <<files, dirs, cache, now, last, stored, created>>

\* RwLock::read: granted when no task holds the write guard
AcquireRead(t) ==
    /\ t \in DOMAIN pc /\ pc[t] \in DOMAIN ReadRequests
    /\ Writers = {}
    /\ pc' = [pc EXCEPT ![t] = ReadRequests[pc[t]]]
    /\ loc' = [loc EXCEPT ![t].guard = "read"]
    /\ UNCHANGED <<files, dirs, cache, now, last, stored, created>>

\* RwLock::write: granted when no task holds a guard
AcquireWrite(t) ==
    /\ t \in DOMAIN pc /\ pc[t] \in DOMAIN WriteRequests
    /\ Writers = {} /\ Readers = {}
    /\ pc' = [pc EXCEPT ![t] = WriteRequests[pc[t]]]
    /\ loc' = [loc EXCEPT ![t].guard = "write"]
    /\ UNCHANGED <<files, dirs, cache, now, last, stored, created>>

\* the task goes on to a point, holding the guard given
Leave(t, point, guard) ==
    /\ pc' = [pc EXCEPT ![t] = point]
    /\ loc' = [loc EXCEPT ![t].guard = guard]

\* the call returns: its guards go out of scope
Finish(t, res) ==
    /\ pc' = [pc EXCEPT ![t] = "done"]
    /\ loc' = [loc EXCEPT ![t].res = res, ![t].guard = "none"]

\* get_bucket returns the bucket: delete_bucket goes on, get_bucket returns
GotBucket(t, bucket) ==
    IF loc[t].kind = "delete_bucket" THEN Leave(t, "d_delete", "none")
    ELSE Finish(t, Ok(bucket))

\* refresh_cache runs, then the call goes on at the point given
Refresh(t, guard, then) ==
    /\ pc' = [pc EXCEPT ![t] = "r_load"]
    /\ loc' = [loc EXCEPT ![t].guard = guard, ![t].next = then]

\* create_bucket: the cache check under the read guard
CbCheck(t) ==
    /\ At(t, "c_check")
    /\ IF CacheGet(St(NoFault), loc[t].name).some
       THEN Finish(t, SvcErr("BucketAlreadyExists"))
       ELSE Leave(t, "c_probe", "none")
    /\ UNCHANGED <<files, dirs, cache, now, last, stored, created>>

CbProbe(t) ==
    /\ At(t, "c_probe")
    /\ \E r \in {load_bucket_from_backend(St(NoFault), loc[t].name)} :
           /\ Commit(r)
           /\ IF ~r.res.ok THEN Finish(t, r.res)
              ELSE IF r.res.val.some THEN Leave(t, "c_write1", "none")
              ELSE Leave(t, "c_save", "none")
    /\ UNCHANGED <<now, last, stored, created>>

\* the second probe, under the write guard
CbReprobe(t) ==
    /\ At(t, "c_reprobe")
    /\ \E r \in {load_bucket_from_backend(St(NoFault), loc[t].name)} :
           IF ~r.res.ok THEN Commit(r) /\ Finish(t, r.res)
           ELSE /\ Commit([st |-> IF r.res.val.some
                                  THEN CacheInsert(r.st, r.res.val.v) ELSE r.st])
                /\ Finish(t, SvcErr("BucketAlreadyExists"))
    /\ UNCHANGED <<now, last, stored, created>>

CbSave(t) ==
    /\ At(t, "c_save")
    /\ \E r \in {save_bucket(St(NoFault), loc[t].bucket, now)} :
           /\ Commit(r)
           /\ IF ~r.res.ok THEN Finish(t, r.res) ELSE Leave(t, "c_write2", "none")
    /\ UNCHANGED <<now, last, stored, created>>

CbInsert(t) ==
    /\ At(t, "c_insert")
    /\ Commit([st |-> CacheInsert(St(NoFault), loc[t].bucket)])
    /\ Finish(t, Ok(loc[t].bucket))
    /\ UNCHANGED <<now, last, stored, created>>

\* get_bucket: the cache lookup under the read guard
GbCheck(t) ==
    /\ At(t, "g_check")
    /\ IF CacheGet(St(NoFault), loc[t].name).some
       THEN GotBucket(t, CacheGet(St(NoFault), loc[t].name).v)
       ELSE Leave(t, "g_probe", "none")
    /\ UNCHANGED <<files, dirs, cache, now, last, stored, created>>

GbProbe(t) ==
    /\ At(t, "g_probe")
    /\ \E r \in {load_bucket_from_backend(St(NoFault), loc[t].name)} :
           /\ Commit(r)
           /\ IF ~r.res.ok THEN Finish(t, r.res)
              ELSE IF r.res.val.some
              THEN /\ pc' = [pc EXCEPT ![t] = "g_write"]
                   /\ loc' = [loc EXCEPT ![t].bucket = r.res.val.v]
              ELSE Refresh(t, "none", "g_read2")
    /\ UNCHANGED <<now, last, stored, created>>

GbInsert(t) ==
    /\ At(t, "g_insert")
    /\ Commit([st |-> CacheInsert(St(NoFault), loc[t].bucket)])
    /\ GotBucket(t, loc[t].bucket)
    /\ UNCHANGED <<now, last, stored, created>>

GbFinal(t) ==
    /\ At(t, "g_final")
    /\ IF CacheGet(St(NoFault), loc[t].name).some
       THEN GotBucket(t, CacheGet(St(NoFault), loc[t].name).v)
       ELSE Finish(t, SvcErr("BucketNotFound"))
    /\ UNCHANGED <<files, dirs, cache, now, last, stored, created>>

\* refresh_cache: the catalog is read with no guard held
RcLoad(t) ==
    /\ At(t, "r_load")
    /\ \E r \in {load_buckets_from_backend(St(NoFault))} :
           /\ Commit(r)
           /\ IF ~r.res.ok THEN Finish(t, r.res)
              ELSE /\ pc' = [pc EXCEPT ![t] = "r_write"]
                   /\ loc' = [loc EXCEPT ![t].found = r.res.val]
    /\ UNCHANGED <<now, last, stored, created>>

\* cache.update under the write guard
RcUpdate(t) ==
    /\ At(t, "r_update")
    /\ Commit([st |-> CacheUpdate(St(NoFault), loc[t].found, now)])
    /\ Leave(t, loc[t].next, "none")
    /\ UNCHANGED <<now, last, stored, created>>

\* where the caller of ensure_cache_fresh goes on
AfterFresh(t) == IF loc[t].kind = "list_buckets" THEN "ls_read" ELSE "i_read"

\* ensure_cache_fresh: the expiry check under the read guard
EcfCheck(t) ==
    /\ At(t, "e_check")
    /\ IF is_expired(St(NoFault), now)
       THEN Refresh(t, guard_after_expiry_check, AfterFresh(t))
       ELSE Leave(t, AfterFresh(t), "none")
    /\ UNCHANGED <<files, dirs, cache, now, last, stored, created>>

\* get_bucket_by_id: the search under the read guard
GidSearch(t) ==
    /\ At(t, "i_search")
    /\ IF FindById(St(NoFault), loc[t].name).some
       THEN Finish(t, Ok(FindById(St(NoFault), loc[t].name).v))
       ELSE Refresh(t, "none", "i_read2")
    /\ UNCHANGED <<files, dirs, cache, now, last, stored, created>>

GidFinal(t) ==
    /\ At(t, "i_final")
    /\ Finish(t, IF FindById(St(NoFault), loc[t].name).some
                 THEN Ok(FindById(St(NoFault), loc[t].name).v)
                 ELSE SvcErr("BucketNotFound"))
    /\ UNCHANGED <<files, dirs, cache, now, last, stored, created>>

\* the steps of task t
TaskStep(t) ==
    \/ AcquireRead(t) \/ AcquireWrite(t)
    \/ CbCheck(t) \/ CbProbe(t) \/ CbReprobe(t) \/ CbSave(t) \/ CbInsert(t)
    \/ GbCheck(t) \/ GbProbe(t) \/ GbInsert(t) \/ GbFinal(t)
    \/ RcLoad(t) \/ RcUpdate(t)
    \/ EcfCheck(t) \/ GidSearch(t) \/ GidFinal(t)

NextGuard ==
    \/ \E t \in GuardTasks : Call(t, "create_bucket", ValidName)
    \/ \E t \in GuardTasks : Call(t, "get_bucket", ValidName)
    \/ \E t \in GuardTasks : Call(t, "get_bucket_by_id", generate_bucket_id(ValidName))
    \/ \E t \in GuardTasks : AcquireRead(t)
    \/ \E t \in GuardTasks : AcquireWrite(t)
    \/ \E t \in GuardTasks : CbCheck(t)
    \/ \E t \in GuardTasks : CbProbe(t)
    \/ \E t \in GuardTasks : CbReprobe(t)
    \/ \E t \in GuardTasks : CbSave(t)
    \/ \E t \in GuardTasks : CbInsert(t)
    \/ \E t \in GuardTasks : GbCheck(t)
    \/ \E t \in GuardTasks : GbProbe(t)
    \/ \E t \in GuardTasks : GbInsert(t)
    \/ \E t \in GuardTasks : GbFinal(t)
    \/ \E t \in GuardTasks : RcLoad(t)
    \/ \E t \in GuardTasks : RcUpdate(t)
    \/ \E t \in GuardTasks : EcfCheck(t)
    \/ \E t \in GuardTasks : GidSearch(t)
    \/ \E t \in GuardTasks : GidFinal(t)
    \/ Elapse(CACHE_TTL_SECONDS + 1)

\* every task is polled again and again, and the lock serves its waiters in turn
SpecGuard ==
    Init /\ [][NextGuard]_vars /\ \A t \in GuardTasks : SF_vars(TaskStep(t))

\* C30: no task waits for a guard of the cache lock while it holds one (in
\* particular none asks for the write side while holding the read side), and
\* every call that has started returns.
C30_NoGuardHeldWhileWaiting ==
    /\ [](\A t \in DOMAIN pc :
            pc[t] \in DOMAIN ReadRequests \cup DOMAIN WriteRequests
            => loc[t].guard = "none")
    /\ \A t \in GuardTasks : [](t \in DOMAIN pc => <>(At(t, "done")))

\* a task that found the cache expired waits for the write guard in
\* refresh_cache while another task holds the read guard
C30_Witness ==
    \E t \in DOMAIN pc :
        /\ pc[t] = "r_write" /\ loc[t].next = "i_read"
        /\ \E u \in Readers : u # t


-----------------------------------------------------------------------------
(* The sweeper of expired locks, requests run one after another *)

\* the lock record of a resource can be read, parses and has expired at time t
ExpiredAt(f, resource, t) ==
    /\ PathJoin(lock_key(resource)) \in DOMAIN f
    /\ get_metadata_path(lock_key(resource)).val \in DOMAIN f
    /\ FromJson("Lock", f[PathJoin(lock_key(resource))]).ok
    /\ FromJson("Lock", f[PathJoin(lock_key(resource))]).val.expires_at < t

\* C31: cleanup_expired_locks at time now deletes exactly the lock records with
\* expires_at < now, leaves every other record in place, does not fail, and
\* returns the number of records it deleted.
C31_SweepDeletesExactlyTheExpired ==
    [][last'.op = "cleanup_expired_locks"
       => /\ last'.res = Ok(Cardinality({r \in Resources : ExpiredAt(files, r, now)}))
          /\ \A r \in Resources :
                IF ExpiredAt(files, r, now)
                THEN PathJoin(lock_key(r)) \notin DOMAIN files'
                ELSE HasLockRecord(r)
                     => /\ PathJoin(lock_key(r)) \in DOMAIN files'
                        /\ files'[PathJoin(lock_key(r))] = files[PathJoin(lock_key(r))]]_vars


-----------------------------------------------------------------------------
(* The start of the gateway, MetadataStore::new, over a catalog that earlier   *)
(* requests with failing backend calls have left behind                       *)

\* a backend whose list_objects answers NotFound for a prefix without objects
ListingNotFound == [at |-> 1, kind |-> "not_found"]

\* startup: the listing or the read of an entry fails
StartupFaults == {NoFault, ListingNotFound} \cup [at : 1..3, kind : {"early"}]

\* create_bucket and delete_bucket: the write or the removal of the catalog
\* record is interrupted
RecordFaults == {NoFault} \cup [at : 2..3, kind : {"mid"}]

\* MetadataStore::new: a new cache, then refresh_cache
Startup(fault) ==
    \E r \in {refresh_cache([St(fault) EXCEPT
                                  !.cache = [buckets |-> <<>>, last_refresh |-> 0]],
                              now)} :
        /\ Commit(r)
        /\ Done("new", <<>>, <<>>, NoArg, r)
        /\ UNCHANGED <<now, stored, created, pc, loc>>

\* main returns when MetadataStore::new fails: no request is served
Serving == ~(last.op = "new" /\ ~last.res.ok)

NextStartup ==
    \/ \E name \in IdNames, fault \in RecordFaults : Serving /\ CreateBucket(name, fault)
    \/ \E name \in IdNames, fault \in RecordFaults : Serving /\ DeleteBucket(name, fault)
    \/ \E fault \in StartupFaults : Startup(fault)

SpecStartup == Init /\ [][NextStartup]_vars

\* the catalog entries the listing reports: payload and metadata file are there
ListedNames(f) ==
    {n \in IdNames : /\ PathJoin(bucket_key(n)) \in DOMAIN f
                     /\ get_metadata_path(bucket_key(n)).val \in DOMAIN f}

\* the key of the entry whose get_object the injected fault hit, if any
HitKeys(l) ==
    IF l.fault.at \in 2..Len(l.log) THEN {l.log[l.fault.at].key} ELSE {}

\* the entries that are read and parse as a Bucket
LoadedNames(f, l) ==
    {n \in ListedNames(f) : /\ FromJson("Bucket", f[PathJoin(bucket_key(n))]).ok
                            /\ bucket_key(n) \notin HitKeys(l)}

\* what startup does once the listing has answered
AfterListing(f, l, c) ==
    IF ListedNames(f) # LoadedNames(f, l) /\ LoadedNames(f, l) = {}
    THEN l.res = SvcErr("Internal")
    ELSE /\ l.res.ok
         /\ DOMAIN c.buckets = LoadedNames(f, l)
         /\ \A n \in LoadedNames(f, l) :
                c.buckets[n] = f[PathJoin(bucket_key(n))].data

\* C32 as stated: startup fails, with Internal, iff at least one entry failed
\* and no bucket loaded; in every other case it succeeds and the cache holds
\* exactly the buckets that loaded; NotFound on the listing is an empty catalog.
C32_StartupFailsOnlyWhenNothingLoads ==
    [][last'.op = "new"
       => IF last'.fault = ListingNotFound
          THEN last'.res.ok /\ cache'.buckets = <<>>
          ELSE IF last'.fault.at = 1
          THEN AfterListing(files, [last' EXCEPT !.fault = NoFault], cache')
          ELSE AfterListing(files, last', cache')]_vars

\* C32, amended: as stated when the listing answers; when the listing itself
\* fails with another error than NotFound, startup fails with that backend error.
C32_StartupToleratesEntryFailures ==
    [][last'.op = "new"
       => IF last'.fault = ListingNotFound
          THEN last'.res.ok /\ cache'.buckets = <<>>
          ELSE IF last'.fault.at = 1
          THEN last'.res = BackendErr("Io")
          ELSE AfterListing(files, last', cache')]_vars

\* startup succeeded with one bucket loaded while another entry did not parse
C32_Witness ==
    /\ last.op = "new" /\ last.res.ok
    /\ \E n \in IdNames :
          /\ n \in ListedNames(files)
          /\ ~FromJson("Bucket", files[PathJoin(bucket_key(n))]).ok
    /\ DOMAIN cache.buckets # {}


-----------------------------------------------------------------------------
(* release_lock and cleanup_expired_locks running concurrently with            *)
(* try_acquire_lock: each backend call is a step, and other calls run between  *)
(* the read of a lock record and its removal                                   *)

SweepResource == ResourceA

\* release_lock starts
BeginRelease(t, resource, owner) ==
    /\ t \notin DOMAIN pc
    /\ t = Cardinality(DOMAIN pc) + 1
    /\ pc' = [u \in DOMAIN pc \cup {t} |-> IF u # t THEN pc[u] ELSE "rl_read"]
    /\ loc' = [u \in DOMAIN loc \cup {t} |->
                IF u # t THEN loc[u]
                ELSE [kind |-> "release_lock", resource |-> resource,
                      owner |-> owner, at |-> now, batch |-> t, free |-> FALSE,
                      res |-> Pending]]
    /\ UNCHANGED <<files, dirs, cache, now, last, stored, created>>

\* release_lock: the get_object of the lock record and the check of its owner
ReleaseRead(t) ==
    /\ At(t, "rl_read")
    /\ \E g \in {local_get_object(St(NoFault), lock_key(loc[t].resource))} :
           IF g.res.ok
           THEN IF ~ReadLock(g).ok THEN Return(t, ReadLock(g))
                ELSE IF ReadLock(g).val.owner # loc[t].owner
                THEN Return(t, SvcErr("LockAcquisition"))
                ELSE Goto(t, "rl_delete")
           ELSE IF g.res.err = "NotFound" THEN Return(t, Ok(Unit))
           ELSE Return(t, BackendErr(g.res.err))
    /\ UNCHANGED <<files, dirs, cache, now, last, stored, created>>

\* release_lock: the delete_object of the lock record
ReleaseDelete(t) ==
    /\ At(t, "rl_delete")
    /\ \E d \in {local_delete_object(St(NoFault), lock_key(loc[t].resource))} :
           /\ Commit(d)
           /\ Return(t, IF d.res.ok THEN Ok(Unit) ELSE BackendErr(d.res.err))
    /\ UNCHANGED <<now, last, stored, created>>

\* cleanup_expired_locks starts: now is read once
BeginCleanup(t) ==
    /\ t \notin DOMAIN pc
    /\ t = Cardinality(DOMAIN pc) + 1
    /\ pc' = [u \in DOMAIN pc \cup {t} |-> IF u # t THEN pc[u] ELSE "cl_list"]
    /\ loc' = [u \in DOMAIN loc \cup {t} |->
                IF u # t THEN loc[u]
                ELSE [kind |-> "cleanup_expired_locks", resource |-> <<>>,
                      owner |-> "sweeper", at |-> now, batch |-> t, free |-> FALSE,
                      todo |-> {}, cleaned |-> 0, res |-> Pending]]
    /\ UNCHANGED <<files, dirs, cache, now, last, stored, created>>

\* cleanup_expired_locks: the list_objects under .metadata/locks
CleanupList(t) ==
    /\ At(t, "cl_list")
    /\ \E l \in {local_list_objects(St(NoFault), LOCKS_PREFIX)} :
           IF l.res.ok
           THEN IF DOMAIN l.res.val = {} THEN Return(t, Ok(0))
                ELSE /\ pc' = [pc EXCEPT ![t] = "cl_read"]
                     /\ loc' = [loc EXCEPT ![t].todo =
                                   {l.res.val[p].key : p \in DOMAIN l.res.val}]
           ELSE IF l.res.err = "NotFound" THEN Return(t, Ok(0))
           ELSE Return(t, BackendErr(l.res.err))
    /\ UNCHANGED <<files, dirs, cache, now, last, stored, created>>

\* the loop goes on to the next listed object, or the call returns
CleanupNext(t, key, cleaned) ==
    IF loc[t].todo = {key}
    THEN /\ pc' = [pc EXCEPT ![t] = "done"]
         /\ loc' = [loc EXCEPT ![t].todo = {}, ![t].cleaned = cleaned,
                               ![t].res = Ok(cleaned)]
    ELSE /\ pc' = [pc EXCEPT ![t] = "cl_read"]
         /\ loc' = [loc EXCEPT ![t].todo = @ \ {key}, ![t].cleaned = cleaned]

\* cleanup_expired_locks: the get_object of a listed record and the check of its expiry
CleanupRead(t) ==
    /\ At(t, "cl_read")
    /\ \E key \in loc[t].todo :
       \E g \in {local_get_object(St(NoFault), key)} :
           IF /\ g.res.ok /\ g.res.val.stream.kind # "error"
              /\ FromJson("Lock", g.res.val.stream).ok
              /\ FromJson("Lock", g.res.val.stream).val.expires_at < loc[t].at
           THEN /\ pc' = [pc EXCEPT ![t] = "cl_delete"]
                /\ loc' = [loc EXCEPT ![t].resource = key]
           ELSE CleanupNext(t, key, loc[t].cleaned)
    /\ UNCHANGED <<files, dirs, cache, now, last, stored, created>>

\* cleanup_expired_locks: the delete_object of the record it read as expired
CleanupDelete(t) ==
    /\ At(t, "cl_delete")
    /\ \E d \in {local_delete_object(St(NoFault), loc[t].resource)} :
           /\ Commit(d)
           /\ CleanupNext(t, loc[t].resource,
                          IF d.res.ok THEN loc[t].cleaned + 1 ELSE loc[t].cleaned)
    /\ UNCHANGED <<now, last, stored, created>>

NextSweep ==
    \/ \E owner \in Owners, ttl_seconds \in Ttls :
           DOMAIN pc = {} /\ TryAcquireLock(SweepResource, owner, ttl_seconds)
    \/ \E t \in 1..MaxLockTasks, ttl_seconds \in Ttls :
           BeginAcquire(t, SweepResource, ttl_seconds)
    \/ \E t \in 1..MaxLockTasks : LockRead(t)
    \/ \E t \in 1..MaxLockTasks : LockWrite(t)
    \/ \E t \in 1..MaxLockTasks, owner \in Owners : BeginRelease(t, SweepResource, owner)
    \/ \E t \in 1..MaxLockTasks : ReleaseRead(t)
    \/ \E t \in 1..MaxLockTasks : ReleaseDelete(t)
    \/ \E t \in 1..MaxLockTasks : BeginCleanup(t)
    \/ \E t \in 1..MaxLockTasks : CleanupList(t)
    \/ \E t \in 1..MaxLockTasks : CleanupRead(t)
    \/ \E t \in 1..MaxLockTasks : CleanupDelete(t)
    \/ Tick

SpecSweep == Init /\ [][NextSweep]_vars

\* task t removes the lock record of the resource in this step
Removes(t, point) ==
    /\ t \in DOMAIN pc /\ pc[t] = point /\ pc'[t] # point
    /\ HasLockRecord(SweepResource)
    /\ PathJoin(lock_key(SweepResource)) \notin DOMAIN files'

\* C33: release_lock(R, A) never deletes a lock record whose owner is not A,
\* whatever try_acquire_lock calls of other owners run between its steps.
C33_ReleaseDeletesOwnRecordOnly ==
    [][\A t \in 1..MaxLockTasks :
          Removes(t, "rl_delete") => LockRecord(SweepResource).owner = loc[t].owner]_vars

\* C34: the sweeper never deletes a lock record that is unexpired at the moment
\* of the deletion, whatever try_acquire_lock calls run between its steps.
C34_SweepDeletesExpiredRecordsOnly ==
    [][\A t \in 1..MaxLockTasks :
          Removes(t, "cl_delete") => ~(LockRecord(SweepResource).expires_at > now)]_vars


-----------------------------------------------------------------------------
(* The bucket cache and the catalog under concurrent MetadataStore calls:      *)
(* delete_bucket, list_buckets and force_refresh join the calls above          *)

\* delete_bucket, after get_bucket: the catalog record is removed
DbDelete(t) ==
    /\ At(t, "d_delete")
    /\ \E r \in {delete_bucket_object(St(NoFault), loc[t].name)} :
           /\ Commit(r)
           /\ IF ~r.res.ok THEN Finish(t, r.res) ELSE Leave(t, "d_write", "none")
    /\ UNCHANGED <<now, last, stored, created>>

\* delete_bucket: cache.remove under the write guard
DbRemove(t) ==
    /\ At(t, "d_remove")
    /\ Commit([st |-> CacheRemove(St(NoFault), loc[t].name)])
    /\ Finish(t, Ok(Unit))
    /\ UNCHANGED <<now, last, stored, created>>

\* list_buckets: the cache's buckets under the read guard, newest first
LsAll(t) ==
    /\ At(t, "ls_all")
    /\ Finish(t, Ok(SortByCreatedAtDesc(all_buckets(St(NoFault)))))
    /\ UNCHANGED <<files, dirs, cache, now, last, stored, created>>

\* force_refresh returns what refresh_cache returned
FrReturn(t) ==
    /\ At(t, "f_return")
    /\ Finish(t, Ok(Unit))
    /\ UNCHANGED <<files, dirs, cache, now, last, stored, created>>

NextCoherence ==
    \/ DOMAIN pc = {} /\ CreateBucket(ValidName, NoFault)
    \/ \E t \in GuardTasks : Call(t, "create_bucket", ValidName)
    \/ \E t \in GuardTasks : Call(t, "delete_bucket", ValidName)
    \/ \E t \in GuardTasks : Call(t, "get_bucket", ValidName)
    \/ \E t \in GuardTasks : Call(t, "get_bucket_by_id", generate_bucket_id(ValidName))
    \/ \E t \in GuardTasks : Call(t, "list_buckets", <<>>)
    \/ \E t \in GuardTasks : Call(t, "force_refresh", <<>>)
    \/ \E t \in GuardTasks : AcquireRead(t)
    \/ \E t \in GuardTasks : AcquireWrite(t)
    \/ \E t \in GuardTasks : CbCheck(t)
    \/ \E t \in GuardTasks : CbProbe(t)
    \/ \E t \in GuardTasks : CbReprobe(t)
    \/ \E t \in GuardTasks : CbSave(t)
    \/ \E t \in GuardTasks : CbInsert(t)
    \/ \E t \in GuardTasks : GbCheck(t)
    \/ \E t \in GuardTasks : GbProbe(t)
    \/ \E t \in GuardTasks : GbInsert(t)
    \/ \E t \in GuardTasks : GbFinal(t)
    \/ \E t \in GuardTasks : RcLoad(t)
    \/ \E t \in GuardTasks : RcUpdate(t)
    \/ \E t \in GuardTasks : EcfCheck(t)
    \/ \E t \in GuardTasks : GidSearch(t)
    \/ \E t \in GuardTasks : GidFinal(t)
    \/ \E t \in GuardTasks : DbDelete(t)
    \/ \E t \in GuardTasks : DbRemove(t)
    \/ \E t \in GuardTasks : LsAll(t)
    \/ \E t \in GuardTasks : FrReturn(t)
    \/ Elapse(CACHE_TTL_SECONDS + 1)

SpecCoherence == Init /\ [][NextCoherence]_vars

\* C35: in every quiescent state every cached name has a catalog record in the
\* backend, and the cached Bucket equals that record.
C35_CacheCoherentWhenQuiescent ==
    Quiescent
    => \A n \in DOMAIN cache.buckets :
          /\ HasCatalogRecord(n)
          /\ FromJson("Bucket", files[bucket_key(n)]).ok
          /\ cache.buckets[n] = CatalogRecord(n)


-----------------------------------------------------------------------------
(* list_buckets after create_bucket calls that ran concurrently with a refresh *)
(* of the cache                                                                *)

NextListed ==
    \/ \E t \in GuardTasks : Call(t, "create_bucket", ValidName)
    \/ \E t \in GuardTasks : Call(t, "force_refresh", <<>>)
    \/ \E t \in GuardTasks : AcquireRead(t)
    \/ \E t \in GuardTasks : AcquireWrite(t)
    \/ \E t \in GuardTasks : CbCheck(t)
    \/ \E t \in GuardTasks : CbProbe(t)
    \/ \E t \in GuardTasks : CbReprobe(t)
    \/ \E t \in GuardTasks : CbSave(t)
    \/ \E t \in GuardTasks : CbInsert(t)
    \/ \E t \in GuardTasks : RcLoad(t)
    \/ \E t \in GuardTasks : RcUpdate(t)
    \/ \E t \in GuardTasks : FrReturn(t)
    \/ Quiescent /\ ListBuckets
    \/ Elapse(CACHE_TTL_SECONDS + 1)

SpecListed == Init /\ [][NextListed]_vars

\* the create_bucket calls that have returned success
CreatedNames ==
    {loc[t].name : t \in {u \in DOMAIN pc : /\ loc[u].kind = "create_bucket"
                                            /\ pc[u] = "done" /\ loc[u].res.ok}}

\* C36: once create_bucket(N) has returned success, and delete_bucket(N) is not
\* called, every list_buckets call that starts afterwards includes N.
C36_ListIncludesCreatedBucket ==
    [][(last'.op = "list_buckets" /\ pc' = pc)
       => /\ last'.res.ok
          /\ \A n \in CreatedNames :
                \E i \in DOMAIN last'.res.val : last'.res.val[i].name = n]_vars


-----------------------------------------------------------------------------
(* Service::put_object running concurrently with Service::delete_bucket: a    *)
(* call runs from one of its calls on the MetadataStore or the backend to the  *)
(* next in one step                                                            *)

PutKeys == {KeyPlain, KeyFT}

BeginPut(t, bucket, key, body) ==
    /\ t \notin DOMAIN pc
    /\ t = Cardinality(DOMAIN pc) + 1
    /\ pc' = [u \in DOMAIN pc \cup {t} |-> IF u # t THEN pc[u] ELSE "p_check"]
    /\ loc' = [u \in DOMAIN loc \cup {t} |->
                IF u # t THEN loc[u]
                ELSE [kind |-> "put_object", name |-> bucket, key |-> key,
                      body |-> body, res |-> Pending]]
    /\ UNCHANGED <<files, dirs, cache, now, last, stored, created>>

\* put_object: get_bucket and validate_object_key
PutCheck(t) ==
    /\ At(t, "p_check")
    /\ \E r \in {Checked(St(NoFault), loc[t].name, loc[t].key, now)} :
           /\ Commit(r)
           /\ IF ~r.res.ok THEN Return(t, r.res) ELSE Goto(t, "p_write")
    /\ UNCHANGED <<now, last, stored, created>>

\* put_object: the backend's put_object
PutWrite(t) ==
    /\ At(t, "p_write")
    /\ \E r \in {FromBackend(local_put_object(St(NoFault),
                                              full_key(loc[t].name, loc[t].key),
                                              loc[t].body, TextPlain, {}, now))} :
           /\ Commit(r)
           /\ Return(t, r.res)
    /\ UNCHANGED <<now, last, stored, created>>

BeginDeleteBucket(t, name) ==
    /\ t \notin DOMAIN pc
    /\ t = Cardinality(DOMAIN pc) + 1
    /\ pc' = [u \in DOMAIN pc \cup {t} |-> IF u # t THEN pc[u] ELSE "x_check"]
    /\ loc' = [u \in DOMAIN loc \cup {t} |->
                IF u # t THEN loc[u]
                ELSE [kind |-> "delete_bucket", name |-> name, key |-> <<>>,
                      body |-> NoArg, res |-> Pending]]
    /\ UNCHANGED <<files, dirs, cache, now, last, stored, created>>

\* delete_bucket: get_bucket
DelCheck(t) ==
    /\ At(t, "x_check")
    /\ \E r \in {meta_get_bucket(St(NoFault), loc[t].name, now)} :
           /\ Commit(r)
           /\ IF ~r.res.ok THEN Return(t, r.res) ELSE Goto(t, "x_list")
    /\ UNCHANGED <<now, last, stored, created>>

\* delete_bucket: list_objects and the check that the bucket is empty
DelList(t) ==
    /\ At(t, "x_list")
    /\ \E r \in {svc_list_objects(St(NoFault), loc[t].name, NoPrefix, now)} :
           /\ Commit(r)
           /\ IF ~r.res.ok THEN Return(t, r.res)
              ELSE IF DOMAIN r.res.val # {} THEN Return(t, SvcErr("Internal"))
              ELSE Goto(t, "x_marker")
    /\ UNCHANGED <<now, last, stored, created>>

\* delete_bucket: the marker is deleted, the result ignored
DelMarker(t) ==
    /\ At(t, "x_marker")
    /\ Commit(local_delete_object(St(NoFault), bucket_marker(loc[t].name)))
    /\ Goto(t, "x_meta")
    /\ UNCHANGED <<now, last, stored, created>>

\* delete_bucket: MetadataStore::delete_bucket
DelMeta(t) ==
    /\ At(t, "x_meta")
    /\ \E r \in {meta_delete_bucket(St(NoFault), loc[t].name, now)} :
           /\ Commit(r)
           /\ Return(t, r.res)
    /\ UNCHANGED <<now, last, stored, created>>

NextPutDelete ==
    \/ DOMAIN pc = {} /\ CreateBucket(ValidName, NoFault)
    \/ \E t \in Tasks, key \in PutKeys, body \in Bodies :
           BeginPut(t, ValidName, key, body)
    \/ \E t \in Tasks : PutCheck(t)
    \/ \E t \in Tasks : PutWrite(t)
    \/ \E t \in Tasks : BeginDeleteBucket(t, ValidName)
    \/ \E t \in Tasks : DelCheck(t)
    \/ \E t \in Tasks : DelList(t)
    \/ \E t \in Tasks : DelMarker(t)
    \/ \E t \in Tasks : DelMeta(t)

SpecPutDelete == Init /\ [][NextPutDelete]_vars

\* C37: in every quiescent state no user object exists at a key B/K whose bucket
\* B has no catalog record.
C37_NoObjectInDeletedBucket ==
    Quiescent
    => \A key \in PutKeys :
          PathJoin(full_key(ValidName, key)) \in DOMAIN files
          => HasCatalogRecord(ValidName)


-----------------------------------------------------------------------------
(* What a successful delete_bucket leaves in the backend, requests run one     *)
(* after another                                                               *)

\* the payload files of the backend under the directory of bucket
ObjectsUnder(f, bucket) ==
    {p \in DOMAIN f : UnderBucket(p, bucket) /\ ~EndsWith(p, DotMetaJson)}

\* C38: after delete_bucket(B) returned success, no object whose key starts with
\* "B/" remains in the backend; delete_bucket never succeeds while the bucket
\* holds an object stored through put_object with a valid key.
C38_DeletedBucketLeavesNoObject ==
    [][(last'.op = "delete_bucket" /\ last'.res.ok)
       => /\ ObjectsUnder(files', last'.bucket) = {}
          /\ UserKeys(last'.bucket) = {}]_vars


-----------------------------------------------------------------------------
(* Listing with max_keys = Some(n). read_dir yields the entries of a directory *)
(* in an order the file system chooses, so the order of the walk is an input   *)

MinOf(a, b) == IF a < b THEN a ELSE b

\* the files of S are visited in one run
Contiguous(order, S) ==
    \A i \in DOMAIN order, j \in DOMAIN order :
        (i < j /\ order[i] \in S /\ order[j] \in S)
        => \A k \in i..j : order[k] \in S

\* the orders in which list_recursive can visit the files of a walk: every file
\* once, and the files below a directory one after another, since the walk goes
\* through a subdirectory before it takes the next entry
WalkOrders(st, search_path) ==
    Let(Walked(st, search_path), LAMBDA walked :
        {order \in [1..Cardinality(walked) -> walked] :
            /\ \A p \in walked : \E i \in DOMAIN order : order[i] = p
            /\ \A d \in st.dirs :
                   Contiguous(order, {p \in walked : IsUnder(p, d)})})

\* Backend::list_objects with max_keys = Some(max_keys): a file is pushed while
\* results.len() < max, so the result is the first max hits of the walk
local_list_objects_max(st0, prefix_str, max_keys, order) ==
    Let(Logged(st0, "list_objects", prefix_str), LAMBDA st :
        IF FaultOf(st) = "not_found" THEN [st |-> st, res |-> Err("NotFound")]
        ELSE IF FaultOf(st) # "none" THEN [st |-> st, res |-> Err("Io")]
        ELSE Let(SelectSeq(order, LAMBDA p :
                     StartsWith(p, prefix_str) /\ read_metadata(st, p).ok),
                 LAMBDA hits :
                 [st |-> st,
                  res |-> Ok([i \in 1..MinOf(max_keys, Len(hits)) |->
                                 read_metadata(st, hits[i]).val])]))

\* Service::list_objects with max_keys = Some(max_keys)
svc_list_objects_max(st0, bucket, prefix, max_keys, order, t) ==
    Let(meta_get_bucket(st0, bucket, t), LAMBDA g :
        IF ~g.res.ok THEN g
        ELSE Let(local_list_objects_max(g.st,
                                        IF prefix = NoPrefix THEN bucket \o Slash
                                        ELSE full_key(bucket, prefix),
                                        max_keys, order), LAMBDA l :
             IF ~l.res.ok THEN FromBackend(l)
             ELSE Let(SelectSeq(l.res.val, LAMBDA obj :
                          ~EndsWith(obj.key, SlashBucketMarker)), LAMBDA filtered :
                  [st |-> l.st,
                   res |-> Ok([i \in DOMAIN filtered |->
                      IF StartsWith(filtered[i].key, bucket \o Slash)
                      THEN [filtered[i] EXCEPT !.key = StripPrefix(@, bucket \o Slash)]
                      ELSE filtered[i]])])))

MaxListKeys == 2

KeyInDir == <<"s", "/", "k">>
BudgetKeys == {KeyPlain, <<"h">>, KeyInDir}
BudgetPrefixes == {NoPrefix, <<"s">>, <<"s", "/">>}

ListObjectsMax(bucket, prefix, max_keys) ==
    \E order \in WalkOrders(St(NoFault),
                            PathJoin(IF prefix = NoPrefix THEN bucket \o Slash
                                     ELSE full_key(bucket, prefix))) :
    \E r \in {svc_list_objects_max(St(NoFault), bucket, prefix, max_keys, order, now)} :
        /\ Commit(r)
        /\ Done("list_objects", bucket, prefix, [max_keys |-> max_keys], r)
        /\ UNCHANGED <<now, stored, created, pc, loc>>

NextBudget ==
    \/ CreateBucket(ValidName, NoFault)
    \/ \E key \in BudgetKeys, body \in Bodies : PutObject(ValidName, key, body, TextPlain)
    \/ \E key \in BudgetKeys : DeleteObject(ValidName, key)
    \/ \E prefix \in BudgetPrefixes, max_keys \in 0..MaxListKeys :
           ListObjectsMax(ValidName, prefix, max_keys)

SpecBudget == Init /\ [][NextBudget]_vars

\* the user objects of bucket that match the prefix
MatchingKeys(bucket, prefix) ==
    {k \in BudgetKeys : /\ <<bucket, k>> \in DOMAIN stored
                        /\ (prefix = NoPrefix \/ StartsWith(k, prefix))}

\* C39: for an existing bucket B with m user objects matching prefix P,
\* list_objects(B, P, max_keys = n) returns exactly min(n, m) objects, whatever
\* the order in which the backend enumerates the keys.
C39_ListReturnsMinOfBudgetAndMatches ==
    [][(last'.op = "list_objects" /\ HasCatalogRecord(last'.bucket))
       => /\ last'.res.ok
          /\ Len(last'.res.val)
                = MinOf(last'.arg.max_keys,
                        Cardinality(MatchingKeys(last'.bucket, last'.key)))]_vars


-----------------------------------------------------------------------------
(* LocalBackend::put_object and get_object on one key as concurrent tasks: the *)
(* creation of the file, every write of a chunk, the write of the metadata     *)
(* file, the opening, the read of the metadata file and every read of the      *)
(* stream are steps of their own. A file is a sequence of bytes; every open    *)
(* handle has its own offset                                                   *)

MaxStreamTasks == 3
StreamTasks == 1..MaxStreamTasks
StreamKey == KeyPlain

\* write_all at offset off: the file grows as needed, a gap reads as zeros
WriteAt(data, off, chunk) ==
    [i \in 1..(IF Len(data) > off + Len(chunk) THEN Len(data) ELSE off + Len(chunk)) |->
        IF i > off /\ i <= off + Len(chunk) THEN chunk[i - off]
        ELSE IF i <= Len(data) THEN data[i]
        ELSE 0]

BeginStream(t, kind, key, body, point) ==
    /\ t \notin DOMAIN pc
    /\ t = Cardinality(DOMAIN pc) + 1
    /\ pc' = [u \in DOMAIN pc \cup {t} |-> IF u # t THEN pc[u] ELSE point]
    /\ loc' = [u \in DOMAIN loc \cup {t} |->
                IF u # t THEN loc[u]
                ELSE [kind |-> kind, key |-> key, body |-> body, off |-> 0,
                      metadata |-> NoArg, res |-> Pending]]
    /\ UNCHANGED <<files, dirs, cache, now, last, stored, created>>

\* put_object: get_full_path, create_dir_all, File::create (the file is truncated)
LpCreate(t) ==
    /\ At(t, "lp_create")
    /\ \E object_path \in {get_full_path(loc[t].key)} :
           IF ~object_path.ok
           THEN /\ Return(t, object_path)
                /\ UNCHANGED <<files, dirs, cache>>
           ELSE \E mk \in {CreateDirAll(St(NoFault), Parent(object_path.val))} :
                IF ~mk.res.ok \/ object_path.val \in mk.st.dirs
                THEN /\ Return(t, Err("Io"))
                     /\ Commit(mk)
                ELSE /\ Commit([st |-> WriteFile(mk.st, object_path.val, Raw(<<>>))])
                     /\ Goto(t, "lp_write")
    /\ UNCHANGED <<now, last, stored, created>>

\* put_object: one chunk of the stream is written at the handle's offset
LpWrite(t) ==
    /\ At(t, "lp_write")
    /\ loc[t].off < Len(loc[t].body.data)
    /\ \E n \in 1..(Len(loc[t].body.data) - loc[t].off),
          p \in {get_full_path(loc[t].key).val} :
           /\ Commit([st |-> WriteFile(St(NoFault), p,
                         Raw(WriteAt(files[p].data, loc[t].off,
                                     SubSeq(loc[t].body.data, loc[t].off + 1,
                                            loc[t].off + n))))])
           /\ loc' = [loc EXCEPT ![t].off = @ + n]
    /\ UNCHANGED <<pc, now, last, stored, created>>

\* put_object: the stream has ended; sync_all, write_metadata
LpMeta(t) ==
    /\ At(t, "lp_write")
    /\ loc[t].off = Len(loc[t].body.data)
    /\ \E metadata \in {[key |-> loc[t].key, size |-> loc[t].off,
                         content_type |-> TextPlain,
                         etag |-> compute_etag(loc[t].body), last_modified |-> now,
                         custom_metadata |-> {}]} :
       \E w \in {write_metadata(St(NoFault), metadata)} :
           /\ Commit(w)
           /\ Return(t, IF w.res.ok THEN Ok(metadata) ELSE w.res)
    /\ UNCHANGED <<now, last, stored, created>>

\* get_object: get_full_path, exists, File::open
LgOpen(t) ==
    /\ At(t, "lg_open")
    /\ \E object_path \in {get_full_path(loc[t].key)} :
           IF ~object_path.ok THEN Return(t, object_path)
           ELSE IF ~Exists(St(NoFault), object_path.val)
           THEN Return(t, Err("NotFound"))
           ELSE IF object_path.val \in dirs THEN Return(t, Err("Io"))
           ELSE Goto(t, "lg_meta")
    /\ UNCHANGED <<files, dirs, cache, now, last, stored, created>>

\* get_object: read_metadata
LgMeta(t) ==
    /\ At(t, "lg_meta")
    /\ \E metadata \in {read_metadata(St(NoFault), loc[t].key)} :
           IF ~metadata.ok THEN Return(t, metadata)
           ELSE /\ pc' = [pc EXCEPT ![t] = "lg_read"]
                /\ loc' = [loc EXCEPT ![t].metadata = metadata.val]
    /\ UNCHANGED <<files, dirs, cache, now, last, stored, created>>

\* the caller reads the stream: the bytes from the handle's offset to the end of
\* the file as it is now, and the end of the stream when there are none
LgRead(t) ==
    /\ At(t, "lg_read")
    /\ \E data \in {files[get_full_path(loc[t].key).val].data} :
           IF Len(data) > loc[t].off
           THEN /\ loc' = [loc EXCEPT ![t].off = Len(data),
                                      ![t].body = Raw(@.data \o SubSeq(data, loc[t].off + 1,
                                                                       Len(data)))]
                /\ UNCHANGED pc
           ELSE Return(t, Ok([metadata |-> loc[t].metadata, stream |-> loc[t].body]))
    /\ UNCHANGED <<files, dirs, cache, now, last, stored, created>>

NextStream ==
    \/ \E t \in StreamTasks, body \in Bodies :
           BeginStream(t, "put_object", StreamKey, body, "lp_create")
    \/ \E t \in StreamTasks : BeginStream(t, "get_object", StreamKey, Raw(<<>>), "lg_open")
    \/ \E t \in StreamTasks : LpCreate(t)
    \/ \E t \in StreamTasks : LpWrite(t)
    \/ \E t \in StreamTasks : LpMeta(t)
    \/ \E t \in StreamTasks : LgOpen(t)
    \/ \E t \in StreamTasks : LgMeta(t)
    \/ \E t \in StreamTasks : LgRead(t)

SpecStream == Init /\ [][NextStream]_vars

\* C40: under any interleaving of get_object(K) with concurrent put_object(K, ..)
\* calls on the Local backend, every get_object that succeeds returns metadata
\* and body of one and the same completed put: metadata.size is the number of
\* bytes the stream yields and metadata.etag is the SHA-256 of those bytes.
C40_GetReturnsOneCompletedPut ==
    \A t \in DOMAIN pc :
        (pc[t] = "done" /\ loc[t].kind = "get_object" /\ loc[t].res.ok)
        => /\ loc[t].res.val.metadata.size = Len(loc[t].res.val.stream.data)
           /\ loc[t].res.val.metadata.etag = compute_etag(loc[t].res.val.stream)

=============================================================================
